---- MODULE Spec2Model ----
(***************************************************************************)
(* Stash Battle (plugins/stash-battle/stash-battle.js): the scene cache,   *)
(* the no-repeat sampling pool, the rating engine and the match selector   *)
(* of the three battle modes, as state machines.                           *)
(*                                                                         *)
(* Specifications:                                                         *)
(*   Spec          a session with the modal under one URL: choices, skips, *)
(*                 mode toggles, retries, timers and rating writes.        *)
(*   SpecGauntlet  a gauntlet or champion run, fresh or restored.          *)
(*   SpecCache     the two cache tiers while the user moves between        *)
(*                 filters, time passes and background refreshes arrive.   *)
(*   SpecTiers     the two cache tiers under one URL, across page loads.   *)
(*   SpecFilters   pairs are judged while the user changes the filter.     *)
(*   SpecRefresh   a pair is judged while a background refresh is in       *)
(*                 flight.                                                 *)
(*   SpecStore     the cache functions called while IndexedDB fails.       *)
(*   SpecRace      two loads in flight while the user changes the filter.  *)
(*   SpecWrites    Swiss pairs are judged and the rating writes succeed or *)
(*                 fail.                                                   *)
(*   SpecSmall     a collection of fewer than two scenes, in every mode.   *)
(*   SpecClimb     runs over a collection of four rated scenes.            *)
(*   SpecFinish    one Gauntlet run in which the user decides every pair.  *)
(*   SpecReload    pairs are judged and the page is loaded again.          *)
(*   SpecDrain     a session without a filter in which every scene is      *)
(*                 judged and the mode is changed.                         *)
(*   SpecSlow      pairs are judged while listings of the Gateway take     *)
(*                 longer than the timer of a choice.                      *)
(*   SpecRating    handleComparison as a function of its arguments and of  *)
(*                 the mode context it reads.                              *)
(*   SpecReposition updateSceneInCache as a function of the lists in       *)
(*                 memory and of the rating written.                       *)
(*                                                                         *)
(* What the model leaves out: the pool queue holds ids and the scene is    *)
(* looked up in the list the pool was called with; of the scene objects   *)
(* that the cache shares with the current pair, the champion and the       *)
(* falling scene, those of the list of all scenes are shared in the model  *)
(* (`shared`), those of the filtered list are copies, and currentPair      *)
(* keeps the ratings its cards were rendered with; a suspended loadNewPair *)
(* resumes in one piece; of the errors only "No scenes" and "Not enough    *)
(* scenes" occur; the page is reloaded in SpecTiers, SpecStore and         *)
(* SpecReload only.                                                        *)
(***************************************************************************)
EXTENDS Integers, Sequences, FiniteSets, Bags, TLC

\* JavaScript null / undefined for ids, scenes, ratings and ranks.  A rating
\* is an integer of [1,100], so 0 is free to stand for "unrated": the code
\* only ever tests ratings with `x || d` and `x != null`.
NULL == 0

\* play_count absent (null / undefined); distinct from a play count of 0.
NoPlayCount == -1

Max(a, b) == IF a >= b THEN a ELSE b
Min(a, b) == IF a <= b THEN a ELSE b

\* JavaScript `x || d` on a rating, rank or count: null, undefined and 0 are falsy.
OrElse(x, d) == IF x = NULL \/ x = NoPlayCount THEN d ELSE x


\* A nullable value: << >> is null, << v >> is v.
None == << >>
Some(v) == << v >>
IsSome(o) == o # << >>
Get(o) == o[1]

\* A scene object of the Gateway's listing: id, rating100, play_count.
Scene(id, rating100, play_count) ==
  [id |-> id, rating100 |-> rating100, play_count |-> play_count]

\* null where the code holds a scene or nothing.
NoScene == Scene(NULL, NULL, NoPlayCount)

\* The ids of a list of scenes, in order, and as a set.
IdsOf(scenes) == [i \in 1..Len(scenes) |-> scenes[i].id]
IdSet(scenes) == {scenes[i].id : i \in 1..Len(scenes)}
Range(seq) == {seq[i] : i \in 1..Len(seq)}

\* arr.findIndex(s => s.id === id), 0-based, -1 when absent.
FindIndex(scenes, id) ==
  IF \E i \in 1..Len(scenes) : scenes[i].id = id
  THEN (CHOOSE i \in 1..Len(scenes) :
          scenes[i].id = id /\ \A j \in 1..(i - 1) : scenes[j].id # id) - 1
  ELSE 0 - 1

\* arr.splice(idx, 1) with a 0-based idx.
SpliceOut(seq, idx) ==
  [i \in 1..(Len(seq) - 1) |-> IF i <= idx THEN seq[i] ELSE seq[i + 1]]

\* arr.splice(idx, 0, x) with a 0-based idx.
SpliceIn(seq, idx, x) ==
  [i \in 1..(Len(seq) + 1) |->
     IF i <= idx THEN seq[i] ELSE IF i = idx + 1 THEN x ELSE seq[i - 1]]

\* All orders of the elements of a sequence without duplicates.
Orders(seq) ==
  {p \in [1..Len(seq) -> Range(seq)] : \A i, j \in 1..Len(seq) : i # j => p[i] # p[j]}

(***************************************************************************)
(* RATING LOGIC                                                            *)
(***************************************************************************)

\* getKFactor with `<=` where the code has `<`.
getKFactorInclusive(playCount) ==
  LET count == OrElse(playCount, 0) IN
  IF count <= 3 THEN 12 ELSE IF count <= 8 THEN 8 ELSE IF count <= 15 THEN 6 ELSE 4

getKFactor(playCount) ==
  LET count == OrElse(playCount, 0) IN
  IF count < 3 THEN 12 ELSE IF count < 8 THEN 8 ELSE IF count < 15 THEN 6 ELSE 4

\* 10^(r/40) for r = 0..39, in units of 1/10000 (Math.pow(10, r / 40)).
Pow10Frac ==
  << 10000, 10593, 11220, 11885, 12589, 13335, 14125, 14962, 15849, 16788,
     17783, 18836, 19953, 21135, 22387, 23714, 25119, 26607, 28184, 29854,
     31623, 33497, 35481, 37584, 39811, 42170, 44668, 47315, 50119, 53088,
     56234, 59566, 63096, 66834, 70795, 74989, 79433, 84140, 89125, 94406 >>

RECURSIVE Pow10Int(_)
Pow10Int(n) == IF n <= 0 THEN 1 ELSE 10 * Pow10Int(n - 1)

\* Math.pow(10, ratingDiff / 40) as a fraction num/den, ratingDiff in -99..99:
\* ratingDiff = 40 q + r with 0 <= r < 40, and 10^(ratingDiff/40) = 10^q * 10^(r/40).
Pow10(ratingDiff) ==
  LET r == ratingDiff % 40
      q == (ratingDiff - r) \div 40
  IN  [num |-> Pow10Frac[r + 1] * Pow10Int(q), den |-> 10000 * Pow10Int(0 - q)]

\* Math.round(kFactor * expectedWinner), expectedWinner = 1 / (1 + 10^(ratingDiff/40)).
\* Math.round(x) is floor(x + 1/2).
RoundKExpected(kFactor, ratingDiff) ==
  LET p == Pow10(ratingDiff) IN
  (2 * kFactor * p.den + p.den + p.num) \div (2 * (p.den + p.num))

\* Math.round(kFactor * (1 - expectedWinner)).
RoundKUnexpected(kFactor, ratingDiff) ==
  LET p == Pow10(ratingDiff) IN
  (2 * kFactor * p.num + p.den + p.num) \div (2 * (p.den + p.num))

\* The mode context handleComparison reads from the module state.
ModeContext(mode, champion, falling, fallingScene) ==
  [mode |-> mode, champion |-> champion, falling |-> falling, fallingScene |-> fallingScene]

\* ComparisonDeltas with the Swiss rule applied in every mode.
ComparisonDeltasBothSides(ctx, winnerId, loserId, ratingDiff, winnerPlayCount, loserPlayCount, loserRank) ==
  [winnerGain |-> Max(1, RoundKUnexpected(getKFactor(winnerPlayCount), ratingDiff)),
   loserLoss |-> Max(1, RoundKExpected(getKFactor(loserPlayCount), ratingDiff))]

\* ComparisonDeltas without the floor of 1 under the loser's loss in Swiss mode.
ComparisonDeltasUnfloored(ctx, winnerId, loserId, ratingDiff, winnerPlayCount, loserPlayCount, loserRank) ==
  IF ctx.mode \in {"gauntlet", "champion"}
  THEN ComparisonDeltasBothSides(ctx, winnerId, loserId, ratingDiff, winnerPlayCount,
                                 loserPlayCount, loserRank)
  ELSE [winnerGain |-> Max(1, RoundKUnexpected(getKFactor(winnerPlayCount), ratingDiff)),
        loserLoss |-> RoundKExpected(getKFactor(loserPlayCount), ratingDiff)]

\* winnerGain and loserLoss as the branches of handleComparison set them.
ComparisonDeltas(ctx, winnerId, loserId, ratingDiff, winnerPlayCount, loserPlayCount, loserRank) ==
  IF ctx.mode \in {"gauntlet", "champion"}
  THEN LET isChampionWinner == ctx.champion # NULL /\ winnerId = ctx.champion
           isFallingWinner == ctx.falling /\ ctx.fallingScene # NULL /\ winnerId = ctx.fallingScene
           isChampionLoser == ctx.champion # NULL /\ loserId = ctx.champion
           isFallingLoser == ctx.falling /\ ctx.fallingScene # NULL /\ loserId = ctx.fallingScene
           gain == IF isChampionWinner \/ isFallingWinner
                   THEN Max(1, RoundKUnexpected(getKFactor(winnerPlayCount), ratingDiff))
                   ELSE 0
           loss == IF isChampionLoser \/ isFallingLoser
                   THEN Max(1, RoundKExpected(getKFactor(loserPlayCount), ratingDiff))
                   ELSE 0
       IN  [winnerGain |-> gain,
            loserLoss |-> IF loserRank = 1 /\ ~isChampionLoser /\ ~isFallingLoser THEN 1 ELSE loss]
  ELSE [winnerGain |-> Max(1, RoundKUnexpected(getKFactor(winnerPlayCount), ratingDiff)),
        loserLoss |-> Max(1, RoundKExpected(getKFactor(loserPlayCount), ratingDiff))]

\* What handleComparison leaves behind: its locals winnerGain and loserLoss,
\* the record it returns, and in `writes` the updateSceneRating calls it
\* issued (one per side whose rating changed).
ComparisonOutcome(winnerId, loserId, winnerRating, loserRating, d, newWinnerRating, newLoserRating) ==
  [winnerGain |-> d.winnerGain,
   loserLoss |-> d.loserLoss,
   newWinnerRating |-> newWinnerRating,
   newLoserRating |-> newLoserRating,
   winnerChange |-> newWinnerRating - winnerRating,
   loserChange |-> newLoserRating - loserRating,
   writes |-> (IF newWinnerRating # winnerRating
               THEN {[id |-> winnerId, rating100 |-> newWinnerRating]} ELSE {})
              \cup
              (IF newLoserRating # loserRating
               THEN {[id |-> loserId, rating100 |-> newLoserRating]} ELSE {})]

\* handleComparison from the deltas on: the new ratings are clamped to [1,100].
ClampedOutcome(winnerId, loserId, winnerRating, loserRating, d) ==
  ComparisonOutcome(winnerId, loserId, winnerRating, loserRating, d,
                    Min(100, Max(1, winnerRating + d.winnerGain)),
                    Min(100, Max(1, loserRating - d.loserLoss)))

\* handleComparison without the clamp of the new ratings to [1,100].
handleComparisonUnclamped(ctx, winnerId, loserId, winnerCurrentRating, loserCurrentRating, winnerPlayCount, loserPlayCount, loserRank) ==
  LET d == ComparisonDeltas(ctx, winnerId, loserId,
                            OrElse(loserCurrentRating, 50) - OrElse(winnerCurrentRating, 50),
                            winnerPlayCount, loserPlayCount, loserRank)
  IN  ComparisonOutcome(winnerId, loserId, OrElse(winnerCurrentRating, 50),
                        OrElse(loserCurrentRating, 50), d,
                        OrElse(winnerCurrentRating, 50) + d.winnerGain,
                        OrElse(loserCurrentRating, 50) - d.loserLoss)

\* handleComparison(winnerId, loserId, winnerCurrentRating, loserCurrentRating,
\* winnerPlayCount, loserPlayCount, loserRank), with the module state it reads
\* as ctx.
handleComparison(ctx, winnerId, loserId, winnerCurrentRating, loserCurrentRating, winnerPlayCount, loserPlayCount, loserRank) ==
  ClampedOutcome(winnerId, loserId, OrElse(winnerCurrentRating, 50),
                 OrElse(loserCurrentRating, 50),
                 ComparisonDeltas(ctx, winnerId, loserId,
                                  OrElse(loserCurrentRating, 50)
                                    - OrElse(winnerCurrentRating, 50),
                                  winnerPlayCount, loserPlayCount, loserRank))


(***************************************************************************)
(* SAMPLING POOL                                                           *)
(***************************************************************************)

\* shuffleFilterKey === null, memoryCache.filterKey === null.
NullKey == "null"

\* A shuffle that draws every position independently (items may repeat).
shuffleArrayWithRepeats(array) == [1..Len(array) -> Range(array)]

\* shuffleArray: a copy of the array in any order (Math.random decides).
shuffleArray(array) == Orders(array)

\* The pool variables as one record.
PoolOf(st) ==
  [shuffledFilteredScenes |-> st.shuffledFilteredScenes,
   shuffleIndex |-> st.shuffleIndex,
   shuffleFilterKey |-> st.shuffleFilterKey,
   removedSceneIds |-> st.removedSceneIds,
   lastShownSceneId |-> st.lastShownSceneId]

\* [a[0], a[k]] = [a[k], a[0]] with a 0-based k.
SwapFirst(a, k) ==
  [i \in 1..Len(a) |-> IF i = 1 THEN a[k + 1] ELSE IF i = k + 1 THEN a[1] ELSE a[i]]

\* getNextFilteredScene(filteredScenes, filterKey) on the ids of the scenes:
\* the set of possible outcomes [scene, pool], scene = NULL for an exhausted
\* pool.  One outcome per result of shuffleArray and of the random swap.
getNextFilteredScene(pool, filteredScenes, filterKey) ==
  LET removed == IF pool.shuffleFilterKey # NullKey /\ filterKey # pool.shuffleFilterKey
                 THEN {} ELSE pool.removedSceneIds
      p0 == [pool EXCEPT !.removedSceneIds = removed]
      availableScenes == SelectSeq(filteredScenes, LAMBDA id : id \notin removed)
      afterFirst ==
        IF filterKey # pool.shuffleFilterKey \/ Len(pool.shuffledFilteredScenes) = 0
        THEN {[p0 EXCEPT !.shuffledFilteredScenes = sh, !.shuffleIndex = 0,
                         !.shuffleFilterKey = filterKey, !.lastShownSceneId = NULL]
                : sh \in shuffleArray(availableScenes)}
        ELSE {p0}
      Reshuffled(q) ==
        IF q.shuffleIndex >= Len(q.shuffledFilteredScenes)
        THEN UNION {
               IF q.lastShownSceneId # NULL /\ Len(sh) > 1 /\ sh[1] = q.lastShownSceneId
               THEN {[q EXCEPT !.shuffledFilteredScenes = SwapFirst(sh, swapIdx),
                               !.shuffleIndex = 0] : swapIdx \in 1..(Len(sh) - 1)}
               ELSE {[q EXCEPT !.shuffledFilteredScenes = sh, !.shuffleIndex = 0]}
               : sh \in shuffleArray(availableScenes)}
        ELSE {q}
      Picked(q) ==
        LET scene == q.shuffledFilteredScenes[q.shuffleIndex + 1] IN
        [scene |-> scene,
         pool |-> [q EXCEPT !.shuffleIndex = q.shuffleIndex + 1, !.lastShownSceneId = scene]]
  IN  IF Len(availableScenes) = 0
      THEN {[scene |-> NULL, pool |-> p0]}
      ELSE {Picked(q2) : q2 \in UNION {Reshuffled(q1) : q1 \in afterFirst}}

\* removeFromFilteredPool that only splices the id out of the shuffled queue
\* and does not record it in removedSceneIds.
removeFromFilteredPoolUntracked(pool, sceneId) ==
  LET shuffleIdx == IF \E i \in 1..Len(pool.shuffledFilteredScenes) :
                          pool.shuffledFilteredScenes[i] = sceneId
                    THEN (CHOOSE i \in 1..Len(pool.shuffledFilteredScenes) :
                            /\ pool.shuffledFilteredScenes[i] = sceneId
                            /\ \A j \in 1..(i - 1) : pool.shuffledFilteredScenes[j] # sceneId) - 1
                    ELSE 0 - 1
  IN  IF shuffleIdx # 0 - 1
      THEN [pool EXCEPT !.shuffledFilteredScenes = SpliceOut(@, shuffleIdx),
                        !.shuffleIndex = IF shuffleIdx < @ THEN @ - 1 ELSE @]
      ELSE pool

\* removeFromFilteredPool that leaves the cursor where it is when it splices
\* the id out of the shuffled queue.
removeFromFilteredPoolKeepCursor(pool, sceneId) ==
  LET shuffleIdx == IF \E i \in 1..Len(pool.shuffledFilteredScenes) :
                          pool.shuffledFilteredScenes[i] = sceneId
                    THEN (CHOOSE i \in 1..Len(pool.shuffledFilteredScenes) :
                            /\ pool.shuffledFilteredScenes[i] = sceneId
                            /\ \A j \in 1..(i - 1) : pool.shuffledFilteredScenes[j] # sceneId) - 1
                    ELSE 0 - 1
  IN  IF shuffleIdx # 0 - 1
      THEN [pool EXCEPT !.removedSceneIds = @ \cup {sceneId},
                        !.shuffledFilteredScenes = SpliceOut(@, shuffleIdx)]
      ELSE [pool EXCEPT !.removedSceneIds = @ \cup {sceneId}]

\* removeFromFilteredPool that only records the id in removedSceneIds and
\* leaves the shuffled queue as it is.
removeFromFilteredPoolKeepQueue(pool, sceneId) ==
  [pool EXCEPT !.removedSceneIds = @ \cup {sceneId}]

\* removeFromFilteredPool, the pool part: record the id and splice it out of
\* the shuffled queue, stepping the cursor back when it was before the cursor.
removeFromFilteredPool(pool, sceneId) ==
  LET shuffleIdx == IF \E i \in 1..Len(pool.shuffledFilteredScenes) :
                          pool.shuffledFilteredScenes[i] = sceneId
                    THEN (CHOOSE i \in 1..Len(pool.shuffledFilteredScenes) :
                            /\ pool.shuffledFilteredScenes[i] = sceneId
                            /\ \A j \in 1..(i - 1) : pool.shuffledFilteredScenes[j] # sceneId) - 1
                    ELSE 0 - 1
  IN  IF shuffleIdx # 0 - 1
      THEN [pool EXCEPT !.removedSceneIds = @ \cup {sceneId},
                        !.shuffledFilteredScenes = SpliceOut(@, shuffleIdx),
                        !.shuffleIndex = IF shuffleIdx < @ THEN @ - 1 ELSE @]
      ELSE [pool EXCEPT !.removedSceneIds = @ \cup {sceneId}]

(***************************************************************************)
(* STATE                                                                   *)
(***************************************************************************)
VARIABLES
  currentPair,               \* [left, right]: the scenes of the rendered cards, NoScene for null
  currentRanks,              \* [left, right]: their ranks, NULL for unknown
  currentMode,               \* "swiss", "gauntlet" or "champion"
  gauntletChampion,          \* the scene on a winning streak, or NoScene
  gauntletWins,              \* current win streak
  gauntletChampionRank,      \* rank shown for the champion (1 = top)
  gauntletDefeated,          \* ids of the scenes defeated in the current run, in order
  gauntletFalling,           \* TRUE while the dethroned champion finds its floor
  gauntletFallingScene,      \* the falling scene, or NoScene
  totalScenesCount,          \* total scenes, for display
  disableChoice,             \* TRUE while choices and skips are ignored
  savedFilterParams,         \* the URL filter params the session state was saved under
  shuffledFilteredScenes,    \* ids of the shuffled copy of the filtered scenes
  shuffleIndex,              \* 0-based cursor into shuffledFilteredScenes
  shuffleFilterKey,          \* filter key of the shuffle, NullKey for null
  removedSceneIds,           \* ids removed from the pool in this session
  lastShownSceneId,          \* id of the last scene the pool served, or NULL
  memoryCache,               \* [allScenes, filteredScenes, filterKey, timestamp]
  shared,                    \* which of "left", "right" (of currentPair), "champion" and
                             \* "falling" hold an object of memoryCache.allScenes
  idb,                       \* IndexedDB store: [all, filtered], each a nullable entry
  idbOk,                     \* FALSE when IndexedDB cannot be opened
  localStorage,              \* the saved session state, nullable
  server,                    \* the Gateway's collection: id -> [rating100, play_count]
  filterMatch,               \* ids the Gateway lists under the URL's filter
  url,                       \* window.location.search: "" without filter
  now,                       \* Date.now(), in units of half the cache max age
  view,                      \* what the comparison area shows
  loads,                     \* loadNewPair calls suspended at an await
  timers,                    \* pending setTimeout callbacks
  pendingWrites,             \* sceneUpdate mutations in flight
  refreshes,                 \* background refreshes in flight
  decisions,                 \* choices the exploration still follows
  hist,                      \* history of picks, fetches and results (for the properties)
  cmpArgs,                   \* arguments of the call under study (SpecRating, SpecReposition)
  cmpResult                  \* << its locals and result >>, << >> before the call

progVars ==
  << currentPair, currentRanks, currentMode, gauntletChampion,
     gauntletWins, gauntletChampionRank, gauntletDefeated, gauntletFalling,
     gauntletFallingScene, totalScenesCount, disableChoice, savedFilterParams,
     shuffledFilteredScenes, shuffleIndex, shuffleFilterKey, removedSceneIds,
     lastShownSceneId, memoryCache, shared, idb, idbOk,
     localStorage, server, filterMatch, url,
     now, view, loads, timers,
     pendingWrites, refreshes, decisions, hist >>

cmpVars == << cmpArgs, cmpResult >>

vars == << progVars, cmpVars >>

\* What the properties need to remember of the run so far.
NoHistory ==
  [cyclePicks |-> << >>,      \* ids served since the queue was last shuffled
   cycleAvail |-> {},         \* the ids available at that shuffle
   cycleFixed |-> FALSE,      \* no removal or cursor reset since that shuffle
   lastPick |-> NULL,         \* id served by the previous call of the pool
   repeated |-> FALSE,        \* the last call served lastPick again, with others available
   judged |-> {},             \* ids judged in Swiss since the queue was last shuffled
   judgedPicked |-> FALSE,    \* the last call served an id of judged
   rated |-> {},              \* ids judged in Swiss since the script was loaded
   fetch |-> [mode |-> "none", empties |-> 0, invalidated |-> FALSE,
              refetched |-> FALSE, retries |-> 0, outcome |-> "none"],
   result |-> "none",         \* "victory" or "placement" when the last step produced it
   before |-> "none",         \* the gauntlet sub-state that step started in
   filtered |-> [key |-> NullKey, origin |-> NullKey, tier |-> "none",
                 memory |-> NullKey, idb |-> NullKey],
   slot |-> [key |-> NullKey, active |-> NullKey, raced |-> FALSE],
   draw |-> [key |-> NullKey, prev |-> NullKey, removed |-> {}, inRange |-> TRUE],
   race |-> [gone |-> {},     \* ids removed since removedSceneIds was last cleared
             back |-> {},     \* those a refresh started before their removal brought back
             drawn |-> FALSE, \* the last call of the pool came after such a refresh
             returned |-> FALSE], \* and served one of those ids
   all |-> [tier |-> "none", stored |-> FALSE],
   clearAll |-> [done |-> FALSE, all |-> FALSE, filtered |-> FALSE],
   store |-> [op |-> "none", fault |-> "none", failed |-> FALSE, rejected |-> FALSE],
   write |-> [id |-> NULL, rating100 |-> NULL, failed |-> FALSE],
   choice |-> [lost |-> FALSE,   \* the last step was a choice against the champion
               winner |-> NULL, loser |-> NULL],
   fall |-> << >>,            \* [id, index] of the opponents presented in the current fall
   toggle |-> [from |-> "none",  \* the sub-state the mode was switched in
               moved |-> FALSE,  \* the cursor of the pool was beyond 0 then
               cursor |-> 0],    \* the cursor when the handler called loadNewPair
   refresh |-> [key |-> NullKey, slot |-> NullKey, invalidated |-> FALSE,
                committed |-> FALSE],
   refreshAll |-> [committed |-> FALSE, invalidated |-> FALSE],
   turn |-> [decided |-> {},     \* ids of the pair a choice was accepted for, until
                                 \* a pair is rendered
             restored |-> FALSE, \* the last step rendered that pair from the saved
                                 \* session
             again |-> FALSE],   \* the last step accepted a choice or a skip while
                                 \* the cards of a decided pair were displayed
   placed |-> [how |-> "none",   \* "won" or "bottom" when the last step placed a scene
               id |-> NULL, rank |-> 0, rating |-> 0]]

\* The history a handler starts from: what the previous step recorded about
\* its cache calls is forgotten, so that these records describe one step.
Faded(h) ==
  [h EXCEPT !.all = NoHistory.all, !.refresh = NoHistory.refresh,
            !.clearAll = NoHistory.clearAll, !.store = NoHistory.store,
            !.slot = NoHistory.slot, !.write = NoHistory.write,
            !.toggle = NoHistory.toggle, !.choice = NoHistory.choice,
            !.refreshAll = NoHistory.refreshAll, !.placed = NoHistory.placed,
            !.turn.again = FALSE, !.turn.restored = FALSE]

\* The program state as one record: the handlers below are functions from
\* such a record to the set of records they can leave behind.
StateNow ==
  [currentPair |-> currentPair,
   currentRanks |-> currentRanks,
   currentMode |-> currentMode,
   gauntletChampion |-> gauntletChampion,
   gauntletWins |-> gauntletWins,
   gauntletChampionRank |-> gauntletChampionRank,
   gauntletDefeated |-> gauntletDefeated,
   gauntletFalling |-> gauntletFalling,
   gauntletFallingScene |-> gauntletFallingScene,
   totalScenesCount |-> totalScenesCount,
   disableChoice |-> disableChoice,
   savedFilterParams |-> savedFilterParams,
   shuffledFilteredScenes |-> shuffledFilteredScenes,
   shuffleIndex |-> shuffleIndex,
   shuffleFilterKey |-> shuffleFilterKey,
   removedSceneIds |-> removedSceneIds,
   lastShownSceneId |-> lastShownSceneId,
   memoryCache |-> memoryCache,
   shared |-> shared,
   idb |-> idb,
   idbOk |-> idbOk,
   localStorage |-> localStorage,
   server |-> server,
   filterMatch |-> filterMatch,
   url |-> url,
   now |-> now,
   view |-> view,
   loads |-> loads,
   timers |-> timers,
   pendingWrites |-> pendingWrites,
   refreshes |-> refreshes,
   decisions |-> decisions,
   hist |-> Faded(hist)]

\* The next state is st.
Becomes(st) ==
  /\ currentPair' = st.currentPair
  /\ currentRanks' = st.currentRanks
  /\ currentMode' = st.currentMode
  /\ gauntletChampion' = st.gauntletChampion
  /\ gauntletWins' = st.gauntletWins
  /\ gauntletChampionRank' = st.gauntletChampionRank
  /\ gauntletDefeated' = st.gauntletDefeated
  /\ gauntletFalling' = st.gauntletFalling
  /\ gauntletFallingScene' = st.gauntletFallingScene
  /\ totalScenesCount' = st.totalScenesCount
  /\ disableChoice' = st.disableChoice
  /\ savedFilterParams' = st.savedFilterParams
  /\ shuffledFilteredScenes' = st.shuffledFilteredScenes
  /\ shuffleIndex' = st.shuffleIndex
  /\ shuffleFilterKey' = st.shuffleFilterKey
  /\ removedSceneIds' = st.removedSceneIds
  /\ lastShownSceneId' = st.lastShownSceneId
  /\ memoryCache' = st.memoryCache
  /\ shared' = st.shared
  /\ idb' = st.idb
  /\ idbOk' = st.idbOk
  /\ localStorage' = st.localStorage
  /\ server' = st.server
  /\ filterMatch' = st.filterMatch
  /\ url' = st.url
  /\ now' = st.now
  /\ view' = st.view
  /\ loads' = st.loads
  /\ timers' = st.timers
  /\ pendingWrites' = st.pendingWrites
  /\ refreshes' = st.refreshes
  /\ decisions' = st.decisions
  /\ hist' = st.hist

\* The program is in state st.
Is(st) ==
  /\ currentPair = st.currentPair
  /\ currentRanks = st.currentRanks
  /\ currentMode = st.currentMode
  /\ gauntletChampion = st.gauntletChampion
  /\ gauntletWins = st.gauntletWins
  /\ gauntletChampionRank = st.gauntletChampionRank
  /\ gauntletDefeated = st.gauntletDefeated
  /\ gauntletFalling = st.gauntletFalling
  /\ gauntletFallingScene = st.gauntletFallingScene
  /\ totalScenesCount = st.totalScenesCount
  /\ disableChoice = st.disableChoice
  /\ savedFilterParams = st.savedFilterParams
  /\ shuffledFilteredScenes = st.shuffledFilteredScenes
  /\ shuffleIndex = st.shuffleIndex
  /\ shuffleFilterKey = st.shuffleFilterKey
  /\ removedSceneIds = st.removedSceneIds
  /\ lastShownSceneId = st.lastShownSceneId
  /\ memoryCache = st.memoryCache
  /\ shared = st.shared
  /\ idb = st.idb
  /\ idbOk = st.idbOk
  /\ localStorage = st.localStorage
  /\ server = st.server
  /\ filterMatch = st.filterMatch
  /\ url = st.url
  /\ now = st.now
  /\ view = st.view
  /\ loads = st.loads
  /\ timers = st.timers
  /\ pendingWrites = st.pendingWrites
  /\ refreshes = st.refreshes
  /\ decisions = st.decisions
  /\ hist = st.hist

Modes == {"swiss", "gauntlet", "champion"}

\* The module state right after the script has loaded (lines 2245-2274, 3110).
ModuleState(server0, filterMatch0, url0, idbOk0, now0) ==
  [currentPair |-> [left |-> NoScene, right |-> NoScene],
   currentRanks |-> [left |-> NULL, right |-> NULL],
   currentMode |-> "swiss",
   gauntletChampion |-> NoScene,
   gauntletWins |-> 0,
   gauntletChampionRank |-> 0,
   gauntletDefeated |-> << >>,
   gauntletFalling |-> FALSE,
   gauntletFallingScene |-> NoScene,
   totalScenesCount |-> 0,
   disableChoice |-> FALSE,
   savedFilterParams |-> "",
   shuffledFilteredScenes |-> << >>,
   shuffleIndex |-> 0,
   shuffleFilterKey |-> NullKey,
   removedSceneIds |-> {},
   lastShownSceneId |-> NULL,
   memoryCache |-> [allScenes |-> None, filteredScenes |-> None,
                    filterKey |-> NullKey, timestamp |-> 0, origin |-> NullKey],
   shared |-> {},
   idb |-> [all |-> None, filtered |-> None],
   idbOk |-> idbOk0,
   localStorage |-> None,
   server |-> server0,
   filterMatch |-> filterMatch0,
   url |-> url0,
   now |-> now0,
   view |-> [modal |-> "none", area |-> "empty"],
   loads |-> EmptyBag,
   timers |-> EmptyBag,
   pendingWrites |-> EmptyBag,
   refreshes |-> EmptyBag,
   decisions |-> 0,
   hist |-> NoHistory]

(***************************************************************************)
(* GATEWAY                                                                 *)
(***************************************************************************)

\* A listing sorted by rating, descending; unrated scenes last, equal ratings
\* in id order (the Gateway's order among equals is fixed but not specified).
RECURSIVE SortDesc(_, _)
SortDesc(coll, ids) ==
  IF ids = {} THEN << >>
  ELSE LET best == CHOOSE i \in ids : \A j \in ids :
                     \/ coll[j].rating100 < coll[i].rating100
                     \/ coll[j].rating100 = coll[i].rating100 /\ i <= j
       IN  << Scene(best, coll[best].rating100, coll[best].play_count) >>
             \o SortDesc(coll, ids \ {best})

\* findScenes(per_page -1, sort rating DESC, scene_filter null).
ListAll(st) == SortDesc(st.server, DOMAIN st.server)

\* The ids the Gateway lists under the filter of a URL.
Matching(st, url0) == IF url0 = "" THEN DOMAIN st.server ELSE st.filterMatch[url0]

\* findScenes(per_page -1, sort rating DESC) under the filter of a URL.
ListFiltered(st, url0) == SortDesc(st.server, Matching(st, url0) \cap DOMAIN st.server)

\* buildFilterKey(searchParams, sceneFilter): a serialization of the URL's
\* search and criteria; the key of "no filter" is a key like any other.
buildFilterKey(url0) == IF url0 = "" THEN "{}" ELSE url0

\* hasFilter of the fetch functions.
hasFilter(url0) == url0 # ""

(***************************************************************************)
(* SCENE CACHE (IndexedDB + memory)                                        *)
(*                                                                         *)
(* Every stored list carries `origin`, the filter key of the Gateway       *)
(* request that produced it, and every background refresh in flight carries *)
(* `invalidated`, set when the filtered bucket of memory is emptied, and     *)
(* `since`, the ids removed from the pool since the refresh started.  The   *)
(* program reads none of them.                                              *)
(***************************************************************************)

\* The filtered bucket of memory is emptied: the filtered refreshes in flight
\* were started before an invalidation.
Invalidated(st) ==
  [st EXCEPT !.refreshes =
     BagOfAll(LAMBDA r : [r EXCEPT !.invalidated = @ \/ r.bucket = "filtered"], @)]

\* Both buckets are emptied: every refresh in flight was started before an
\* invalidation.
InvalidatedAll(st) ==
  [st EXCEPT !.refreshes = BagOfAll(LAMBDA r : [r EXCEPT !.invalidated = TRUE], @)]

\* CACHE_MAX_AGE_MS (5 minutes), in the unit of `now`.
CacheMaxAge == 2

\* (Date.now() - timestamp) >= CACHE_MAX_AGE_MS.
IsStale(st, timestamp) == st.now - timestamp >= CacheMaxAge

\* getCachedScenes(cacheKey): the stored entry; null when there is none, when
\* it is older than the max age, or when the store cannot be read.
getCachedScenes(st, cacheKey) ==
  IF st.idbOk /\ IsSome(st.idb[cacheKey])
     /\ st.now - Get(st.idb[cacheKey]).timestamp < CacheMaxAge
  THEN st.idb[cacheKey]
  ELSE None

\* setCachedScenes / setCachedScenesWithFilter: a failure is logged and dropped.
setCachedScenes(st, cacheKey, scenes, count, filterKey, origin) ==
  IF st.idbOk
  THEN [st EXCEPT !.idb[cacheKey] =
          Some([scenes |-> scenes, count |-> count, filterKey |-> filterKey,
                timestamp |-> st.now, origin |-> origin])]
  ELSE st

\* clearSceneCache has returned: the buckets memory holds at that moment.
ClearedAll(st) ==
  [st EXCEPT !.hist.clearAll = [done |-> TRUE,
                                all |-> IsSome(st.memoryCache.allScenes),
                                filtered |-> IsSome(st.memoryCache.filteredScenes)]]

\* clearSceneCache: memory is reset in the success callback of store.clear().
clearSceneCache(st) ==
  IF st.idbOk
  THEN ClearedAll([InvalidatedAll(st) EXCEPT
                     !.idb = [all |-> None, filtered |-> None],
                     !.memoryCache = [allScenes |-> None, filteredScenes |-> None,
                                      filterKey |-> NullKey, timestamp |-> 0,
                                      origin |-> NullKey],
                     !.shared = {}])
  ELSE ClearedAll(st)

\* clearFilteredCache: memory is cleared on success and in the catch branch.
clearFilteredCache(st) ==
  [Invalidated(st) EXCEPT !.idb.filtered = IF st.idbOk THEN None ELSE @,
                          !.memoryCache.filteredScenes = None,
                          !.memoryCache.filterKey = NullKey,
                          !.memoryCache.origin = NullKey]

\* backgroundRefreshAllScenes / backgroundRefreshFilteredScenes is called: its
\* request reaches the Gateway now, its answer is handled later.
StartRefresh(st, bucket, url0) ==
  [st EXCEPT !.refreshes = @ (+) SetToBag(
         {[bucket |-> bucket, filterKey |-> buildFilterKey(url0),
           scenes |-> IF bucket = "all" THEN ListAll(st) ELSE ListFiltered(st, url0),
           invalidated |-> FALSE, since |-> {}]})]

\* The memory test of getFilteredScenesCached without the comparison of keys.
MemoryFilteredHitAnyKey(st, filterKey) ==
  IsSome(st.memoryCache.filteredScenes)

\* memoryCache.filteredScenes && memoryCache.filterKey === filterKey.
MemoryFilteredHit(st, filterKey) ==
  IsSome(st.memoryCache.filteredScenes) /\ st.memoryCache.filterKey = filterKey

\* What the cached getters return.
Listing(st, scenes, count) == [st |-> st, scenes |-> scenes, count |-> count]

\* What a call of getAllScenesCached answered from the network: whether
\* IndexedDB held an entry of the bucket, of any age, at the call.  (Answers
\* from memory and from IndexedDB leave no record.)
AnsweredAll(st, tier, stored) ==
  IF tier = "network"
  THEN [st EXCEPT !.hist.all = [tier |-> tier, stored |-> stored]]
  ELSE st

\* IndexedDB can be read and holds an entry under cacheKey, fresh or not.
Stored(st, cacheKey) == st.idbOk /\ IsSome(st.idb[cacheKey])

\* if (isStale) backgroundRefresh...(): the refresh is started for a stale list.
RefreshIfStale(st, timestamp, bucket, url0) ==
  IF IsStale(st, timestamp) THEN StartRefresh(st, bucket, url0) ELSE st

\* getAllScenesCached, the entry of IndexedDB is used.
AllFromIdb(st, entry) ==
  Listing(AnsweredAll(RefreshIfStale(
                        [st EXCEPT !.memoryCache.allScenes = Some(entry.scenes),
                                   !.memoryCache.timestamp = entry.timestamp,
                                   !.shared = {}],
                        entry.timestamp, "all", ""),
                      "idb", Stored(st, "all")),
          entry.scenes, entry.count)

\* getAllScenesCached, the list is fetched and stored in both tiers.
AllFromNetwork(st, scenes) ==
  Listing(AnsweredAll(setCachedScenes(
                        [st EXCEPT !.memoryCache.allScenes = Some(scenes),
                                   !.memoryCache.timestamp = st.now,
                                   !.shared = {}],
                        "all", scenes, Len(scenes), NullKey, NullKey),
                      "network", Stored(st, "all")),
          scenes, Len(scenes))

\* getAllScenesCached, after the miss in memory.
AllFromStore(st, cached) ==
  IF IsSome(cached) THEN AllFromIdb(st, Get(cached)) ELSE AllFromNetwork(st, ListAll(st))

\* getAllScenesCached, run to its return: [st, scenes, count].
getAllScenesCached(st) ==
  IF IsSome(st.memoryCache.allScenes)
  THEN Listing(AnsweredAll(RefreshIfStale(st, st.memoryCache.timestamp, "all", ""),
                           "memory", Stored(st, "all")),
               Get(st.memoryCache.allScenes), Len(Get(st.memoryCache.allScenes)))
  ELSE AllFromStore(st, getCachedScenes(st, "all"))

\* The filter keys the two tiers hold a usable filtered list under (NullKey
\* for none) when getFilteredScenesCached is called.
CachedKeys(st) ==
  [memory |-> IF IsSome(st.memoryCache.filteredScenes)
              THEN st.memoryCache.filterKey ELSE NullKey,
   idb |-> IF IsSome(getCachedScenes(st, "filtered"))
           THEN Get(getCachedScenes(st, "filtered")).filterKey ELSE NullKey]

\* What a call of getFilteredScenesCached answered: the key asked for, the
\* origin of the list returned, the tier that served it and the keys the tiers
\* held.  For an answer of the network, which is written to the slot: the key
\* written, the key of the URL at that moment and whether the fetch of
\* another loadNewPair was in flight then.
Answered(st, filterKey, origin, tier, held) ==
  [st EXCEPT !.hist.filtered = [key |-> filterKey, origin |-> origin, tier |-> tier,
                                memory |-> held.memory, idb |-> held.idb],
             !.hist.slot = IF tier = "network"
                           THEN [key |-> filterKey,
                                 active |-> buildFilterKey(st.url),
                                 raced |-> \E l \in BagToSet(st.loads) :
                                             l.mode # "prewarm"]
                           ELSE @]

\* getFilteredScenesCached, the entry of IndexedDB is used.
FilteredFromIdb(st, url0, entry) ==
  Listing(Answered(RefreshIfStale(
                     [st EXCEPT !.memoryCache.filteredScenes = Some(entry.scenes),
                                !.memoryCache.filterKey = buildFilterKey(url0),
                                !.memoryCache.timestamp = entry.timestamp,
                                !.memoryCache.origin = entry.origin],
                     entry.timestamp, "filtered", url0),
                   buildFilterKey(url0), entry.origin, "idb", CachedKeys(st)),
          entry.scenes, entry.count)

\* getFilteredScenesCached, the list is fetched and stored in both tiers.
FilteredFromNetwork(st, url0, scenes) ==
  Listing(Answered(setCachedScenes(
                     [st EXCEPT !.memoryCache.filteredScenes = Some(scenes),
                                !.memoryCache.filterKey = buildFilterKey(url0),
                                !.memoryCache.timestamp = st.now,
                                !.memoryCache.origin = buildFilterKey(url0)],
                     "filtered", scenes, Len(scenes), buildFilterKey(url0),
                     buildFilterKey(url0)),
                   buildFilterKey(url0), buildFilterKey(url0), "network",
                   CachedKeys(st)),
          scenes, Len(scenes))

\* getFilteredScenesCached, after the miss in memory: the entry of IndexedDB
\* counts only under the same filter key.
FilteredFromStore(st, url0, cached) ==
  IF IsSome(cached) /\ Get(cached).filterKey = buildFilterKey(url0)
  THEN FilteredFromIdb(st, url0, Get(cached))
  ELSE FilteredFromNetwork(st, url0, ListFiltered(st, url0))

\* getFilteredScenesCached(searchParams, sceneFilter), run to its return.
getFilteredScenesCached(st, url0) ==
  IF MemoryFilteredHit(st, buildFilterKey(url0))
  THEN Listing(Answered(RefreshIfStale(st, st.memoryCache.timestamp, "filtered", url0),
                        buildFilterKey(url0), st.memoryCache.origin, "memory",
                        CachedKeys(st)),
               Get(st.memoryCache.filteredScenes),
               Len(Get(st.memoryCache.filteredScenes)))
  ELSE FilteredFromStore(st, url0, getCachedScenes(st, "filtered"))

\* What a background refresh of the filtered bucket did with its answer (a
\* discarded answer leaves no record).
Refreshed(st, r, slot, committed) ==
  [st EXCEPT !.hist.refresh = IF committed
                              THEN [key |-> r.filterKey, slot |-> slot,
                                    invalidated |-> r.invalidated,
                                    committed |-> committed]
                              ELSE @,
             !.hist.race.back =
                IF committed
                THEN @ \cup ({r.scenes[i].id : i \in 1..Len(r.scenes)}
                               \cap r.since \cap st.hist.race.gone)
                ELSE @]

\* if (memoryCache.filterKey === filterKey), at the completion of the refresh.
StillOnFilter(st, filterKey) == st.memoryCache.filterKey = filterKey

\* The answer of a background refresh arrives.  (Of the all-items refreshes
\* the history records those that were in flight when the cache was cleared.)
FinishRefresh(st, r) ==
  LET st0 == [st EXCEPT !.refreshes = @ (-) SetToBag({r})] IN
  IF r.bucket = "all"
  THEN setCachedScenes([st0 EXCEPT !.memoryCache.allScenes = Some(r.scenes),
                                   !.memoryCache.timestamp = st.now,
                                   !.shared = {},
                                   !.hist.refreshAll =
                                      IF r.invalidated
                                      THEN [committed |-> TRUE, invalidated |-> TRUE]
                                      ELSE @],
                       "all", r.scenes, Len(r.scenes), NullKey, NullKey)
  ELSE IF StillOnFilter(st, r.filterKey)
       THEN Refreshed(setCachedScenes(
                        [st0 EXCEPT !.memoryCache.filteredScenes = Some(r.scenes),
                                    !.memoryCache.timestamp = st.now,
                                    !.memoryCache.origin = r.filterKey],
                        "filtered", r.scenes, Len(r.scenes), r.filterKey, r.filterKey),
                      r, st.memoryCache.filterKey, TRUE)
       ELSE Refreshed(st0, r, st.memoryCache.filterKey, FALSE)

\* What fails during one call of a cache function: nothing, indexedDB.open,
\* or the request on the opened store (get, put, delete, clear).
Faults == {"none", "open", "get", "put", "delete", "clear"}

\* The state a call leaves when nothing could be read from or written to the
\* store during it: what `call` makes of the state with the store closed.
StoreDown(st) == [st EXCEPT !.idbOk = FALSE]
StoreUp(st) == [st EXCEPT !.idbOk = TRUE]

\* What a call of a cache function under a fault came to: the state it left,
\* whether an operation of IndexedDB failed during it, and whether the promise
\* it returned was rejected.
Attempted(st, op, fault, failed, rejected) ==
  [st EXCEPT !.hist.store = [op |-> op, fault |-> fault, failed |-> failed,
                             rejected |-> rejected]]

\* getAllScenesCached() while IndexedDB fails.  A failure of openCacheDB() is
\* awaited inside the try of getCachedScenes / setCachedScenes and caught;
\* the promise of the request is returned without await, so its rejection
\* passes the catch and rejects `await getCachedScenes(...)` or
\* `await setCachedScenes(...)` in getAllScenesCached, which has no try.
getAllScenesCachedUnder(st, fault) ==
  IF IsSome(st.memoryCache.allScenes) \/ fault \notin {"open", "get", "put"}
  THEN Attempted(getAllScenesCached(st).st, "getAll", fault, FALSE, FALSE)
  ELSE IF fault = "open"
  THEN Attempted(StoreUp(getAllScenesCached(StoreDown(st)).st), "getAll", fault,
                 TRUE, FALSE)
  ELSE IF fault = "get"
  THEN Attempted(st, "getAll", fault, TRUE, TRUE)
  ELSE IF IsSome(getCachedScenes(st, "all"))
  THEN Attempted(getAllScenesCached(st).st, "getAll", fault, FALSE, FALSE)
  ELSE Attempted(StoreUp(getAllScenesCached(StoreDown(st)).st), "getAll", fault,
                 TRUE, TRUE)

\* getFilteredScenesCached(searchParams, sceneFilter) while IndexedDB fails.
getFilteredScenesCachedUnder(st, url0, fault) ==
  IF MemoryFilteredHit(st, buildFilterKey(url0)) \/ fault \notin {"open", "get", "put"}
  THEN Attempted(getFilteredScenesCached(st, url0).st, "getFiltered", fault, FALSE, FALSE)
  ELSE IF fault = "open"
  THEN Attempted(StoreUp(getFilteredScenesCached(StoreDown(st), url0).st),
                 "getFiltered", fault, TRUE, FALSE)
  ELSE IF fault = "get"
  THEN Attempted(st, "getFiltered", fault, TRUE, TRUE)
  ELSE IF /\ IsSome(getCachedScenes(st, "filtered"))
          /\ Get(getCachedScenes(st, "filtered")).filterKey = buildFilterKey(url0)
  THEN Attempted(getFilteredScenesCached(st, url0).st, "getFiltered", fault, FALSE, FALSE)
  ELSE Attempted(StoreUp(getFilteredScenesCached(StoreDown(st), url0).st),
                 "getFiltered", fault, TRUE, TRUE)

\* clearFilteredCache() while IndexedDB fails: the catch, which clears memory,
\* runs for a failure of openCacheDB() only.
clearFilteredCacheUnder(st, fault) ==
  IF fault = "open"
  THEN Attempted(StoreUp(clearFilteredCache(StoreDown(st))), "invalidateFiltered",
                 fault, TRUE, FALSE)
  ELSE IF fault = "delete"
  THEN Attempted(st, "invalidateFiltered", fault, TRUE, TRUE)
  ELSE Attempted(clearFilteredCache(st), "invalidateFiltered", fault, FALSE, FALSE)

\* clearSceneCache() while IndexedDB fails.
clearSceneCacheUnder(st, fault) ==
  IF fault = "open"
  THEN Attempted(StoreUp(clearSceneCache(StoreDown(st))), "invalidateAll",
                 fault, TRUE, FALSE)
  ELSE IF fault = "clear"
  THEN Attempted(st, "invalidateAll", fault, TRUE, TRUE)
  ELSE Attempted(clearSceneCache(st), "invalidateAll", fault, FALSE, FALSE)

\* arr.findIndex(s => (s.rating100 || 0) < newRating), 0-based, -1 for none.
FindLower(arr, newRating) ==
  IF \E i \in 1..Len(arr) : arr[i].rating100 < newRating
  THEN (CHOOSE i \in 1..Len(arr) :
          /\ arr[i].rating100 < newRating
          /\ \A j \in 1..(i - 1) : ~(arr[j].rating100 < newRating)) - 1
  ELSE 0 - 1

\* The scene goes to its place in the array it was taken out of.
InsertSorted(rest, scene, newIdx) ==
  IF newIdx = 0 - 1 THEN Append(rest, scene) ELSE SpliceIn(rest, newIdx, scene)

\* repositionSceneInArray, for a scene found at idx.
RepositionAt(arr, idx, newRating) ==
  InsertSorted(SpliceOut(arr, idx), [arr[idx + 1] EXCEPT !.rating100 = newRating],
               FindLower(SpliceOut(arr, idx), newRating))

\* repositionSceneInArray without the splices: the rating is set in place.
repositionSceneInArrayInPlace(arr, sceneId, newRating) ==
  [i \in 1..Len(arr) |->
     IF arr[i].id = sceneId THEN [arr[i] EXCEPT !.rating100 = newRating] ELSE arr[i]]

\* repositionSceneInArray(arr, sceneId, newRating): the array afterwards.
repositionSceneInArray(arr, sceneId, newRating) ==
  IF FindIndex(arr, sceneId) = 0 - 1 THEN arr
  ELSE RepositionAt(arr, FindIndex(arr, sceneId), newRating)

\* scene.rating100 = newRating on an object of the list of all scenes: the
\* champion and the falling scene show the rating when they are that object.
SeenByHolders(st, sceneId, newRating) ==
  [st EXCEPT
     !.gauntletChampion.rating100 =
        IF "champion" \in st.shared /\ st.gauntletChampion.id = sceneId THEN newRating ELSE @,
     !.gauntletFallingScene.rating100 =
        IF "falling" \in st.shared /\ st.gauntletFallingScene.id = sceneId
        THEN newRating ELSE @]

\* updateSceneInCache(sceneId, newRating).
updateSceneInCache(st, sceneId, newRating) ==
  [SeenByHolders(st, sceneId, newRating) EXCEPT
     !.memoryCache.allScenes =
        IF IsSome(@) THEN Some(repositionSceneInArray(Get(@), sceneId, newRating)) ELSE @,
     !.memoryCache.filteredScenes =
        IF IsSome(@)
        THEN Some([i \in 1..Len(Get(@)) |->
                     IF Get(@)[i].id = sceneId
                     THEN [Get(@)[i] EXCEPT !.rating100 = newRating] ELSE Get(@)[i]])
        ELSE @]


\* updateSceneRating(sceneId, rating100) is called: the mutation is sent.
updateSceneRating(st, sceneId, rating100) ==
  [st EXCEPT !.pendingWrites = @ (+) SetToBag(
     {[id |-> sceneId, rating100 |-> Max(1, Min(100, rating100))]})]

\* saveState that writes an empty list for gauntletDefeated.
saveStateForgetsDefeated(st) ==
  [st EXCEPT !.localStorage = Some(
     [currentPair |-> st.currentPair,
      currentRanks |-> st.currentRanks,
      currentMode |-> st.currentMode,
      gauntletChampion |-> st.gauntletChampion,
      gauntletWins |-> st.gauntletWins,
      gauntletChampionRank |-> st.gauntletChampionRank,
      gauntletDefeated |-> << >>,
      gauntletFalling |-> st.gauntletFalling,
      gauntletFallingScene |-> st.gauntletFallingScene,
      totalScenesCount |-> st.totalScenesCount,
      savedFilterParams |-> st.url])]

\* saveState(): the session state goes to localStorage under the current URL.
saveState(st) ==
  [st EXCEPT !.localStorage = Some(
     [currentPair |-> st.currentPair,
      currentRanks |-> st.currentRanks,
      currentMode |-> st.currentMode,
      gauntletChampion |-> st.gauntletChampion,
      gauntletWins |-> st.gauntletWins,
      gauntletChampionRank |-> st.gauntletChampionRank,
      gauntletDefeated |-> st.gauntletDefeated,
      gauntletFalling |-> st.gauntletFalling,
      gauntletFallingScene |-> st.gauntletFallingScene,
      totalScenesCount |-> st.totalScenesCount,
      savedFilterParams |-> st.url])]

\* loadState(): [st, hasState].
loadState(st) ==
  IF IsSome(st.localStorage)
  THEN LET state == Get(st.localStorage) IN
       [st |-> [st EXCEPT !.currentPair = state.currentPair,
                          !.currentRanks = state.currentRanks,
                          !.currentMode = state.currentMode,
                          !.gauntletChampion = state.gauntletChampion,
                          !.gauntletWins = state.gauntletWins,
                          !.gauntletChampionRank = state.gauntletChampionRank,
                          !.gauntletDefeated = state.gauntletDefeated,
                          !.gauntletFalling = state.gauntletFalling,
                          !.gauntletFallingScene = state.gauntletFallingScene,
                          !.totalScenesCount = state.totalScenesCount,
                          !.savedFilterParams = state.savedFilterParams,
                          !.shared = {}],
        hasState |-> TRUE]
  ELSE [st |-> st, hasState |-> FALSE]

(***************************************************************************)
(* PAIR FETCHES                                                            *)
(*                                                                         *)
(* A fetch is a function from the state to the set of its possible results *)
(* [st, kind, scenes, ranks]: kind is "pair", "victory", "placement" or    *)
(* "error" (an exception; what the fetch changed before it stays changed). *)
(***************************************************************************)

Result(st, kind, scenes, ranks) ==
  [st |-> st, kind |-> kind, scenes |-> scenes, ranks |-> ranks]

\* The pool variables are set from a pool record.
WithPool(st, pool) ==
  [st EXCEPT !.shuffledFilteredScenes = pool.shuffledFilteredScenes,
             !.shuffleIndex = pool.shuffleIndex,
             !.shuffleFilterKey = pool.shuffleFilterKey,
             !.removedSceneIds = pool.removedSceneIds,
             !.lastShownSceneId = pool.lastShownSceneId]

\* getNextFilteredScene is about to shuffle (first load, filter change or end
\* of the cycle).
Reshuffles(pool, filterKey) ==
  \/ filterKey # pool.shuffleFilterKey
  \/ Len(pool.shuffledFilteredScenes) = 0
  \/ pool.shuffleIndex >= Len(pool.shuffledFilteredScenes)

\* The scene object of an id in a list.
SceneOf(scenes, id) ==
  IF FindIndex(scenes, id) = 0 - 1 THEN Scene(id, NULL, NoPlayCount)
  ELSE scenes[FindIndex(scenes, id) + 1]

\* Something other than a pick changed the pool: the cycle is no longer the
\* fixed one that began at the last shuffle.
Disturb(st) ==
  [st EXCEPT !.hist.cycleFixed = FALSE, !.hist.cyclePicks = << >>,
             !.hist.cycleAvail = {}]

\* A call of getNextFilteredScene(filteredScenes, filterKey) by a fetch: the
\* possible [st, scene], scene = NoScene for null.  The history records the
\* pick, the key of this call and of the call before, the removed ids the
\* call filtered the list by, and whether the element it read was within the
\* queue.
NextScene(st, filteredScenes, filterKey) ==
  LET pool == PoolOf(st)
      removed == IF pool.shuffleFilterKey # NullKey /\ filterKey # pool.shuffleFilterKey
                 THEN {} ELSE pool.removedSceneIds
      avail == IdSet(filteredScenes) \ removed
      fresh == Reshuffles(pool, filterKey)
      cleared == pool.shuffleFilterKey # NullKey /\ filterKey # pool.shuffleFilterKey
      Noted(h0, id) ==
        LET h == [h0 EXCEPT !.draw = [key |-> filterKey, prev |-> h0.draw.key,
                                      removed |-> removed, inRange |-> TRUE],
                            !.race = IF cleared THEN NoHistory.race
                                     ELSE [@ EXCEPT !.drawn = h0.race.back # {},
                                                    !.returned = id \in h0.race.back]] IN
        IF id = NULL THEN [h EXCEPT !.fetch.empties = @ + 1]
        ELSE [h EXCEPT
                !.cycleFixed = fresh \/ @,
                !.cyclePicks = IF fresh THEN << id >>
                               ELSE IF h.cycleFixed THEN Append(@, id) ELSE @,
                !.cycleAvail = IF fresh THEN avail ELSE @,
                !.repeated = (h.lastPick = id /\ Cardinality(avail) > 1),
                !.lastPick = id,
                !.judgedPicked = (~fresh /\ id \in h.judged),
                !.judged = IF fresh THEN {} ELSE @,
                !.fetch.retries = IF h.fetch.empties > 0 THEN @ + 1 ELSE @]
      InRange(o) ==
        o.scene = NULL \/ o.pool.shuffleIndex \in 1..Len(o.pool.shuffledFilteredScenes)
  IN  {[st |-> [WithPool(st, o.pool) EXCEPT
                  !.hist = [Noted(st.hist, o.scene) EXCEPT !.draw.inRange = InRange(o)]],
        scene |-> IF o.scene = NULL THEN NoScene ELSE SceneOf(filteredScenes, o.scene)]
         : o \in getNextFilteredScene(pool, IdsOf(filteredScenes), filterKey)}

\* A fetch begins: the history of the fetch starts afresh.
BeginFetch(st, mode) ==
  [st EXCEPT !.hist.fetch = [mode |-> mode, empties |-> 0, invalidated |-> FALSE,
                             refetched |-> FALSE, retries |-> 0, outcome |-> "none"]]

\* fetchRandomScenes(2): two of the scenes the URL's filter lists, or an
\* exception when there are fewer than two.
fetchRandomScenes(st, url0) ==
  LET allScenes == ListFiltered(st, url0) IN
  IF Len(allScenes) < 2 THEN {Result(st, "error", << >>, << >>)}
  ELSE {Result(st, "pair", << allScenes[i], allScenes[j] >>, << NULL, NULL >>)
          : <<i, j>> \in {p \in (1..Len(allScenes)) \X (1..Len(allScenes)) : p[1] # p[2]}}

\* const reach = 5 of fetchSwissPair.
reach == 5

\* The 0-based positions fetchSwissPair picks the opponent from.
CandidatesWithSelf(allScenes, scene1Idx) ==
  {i \in (scene1Idx - reach)..(scene1Idx + reach) : i >= 0 /\ i < Len(allScenes)}

Candidates(allScenes, scene1Idx) ==
  LET near == {i \in (scene1Idx - reach)..(scene1Idx + reach) :
                 i >= 0 /\ i < Len(allScenes) /\ i # scene1Idx}
  IN  IF near = {} THEN {IF scene1Idx = 0 THEN 1 ELSE 0} ELSE near

\* The exception of a fetch.
Thrown(st) == Result(st, "error", << >>, << >>)

\* fetchSwissPair: scene1 meets one of its neighbours in the list of all scenes.
SwissPaired(st, allScenes, scene1) ==
  {Result(st, "pair", << scene1, allScenes[i + 1] >>,
          << FindIndex(allScenes, scene1.id) + 1, i + 1 >>)
     : i \in Candidates(allScenes, FindIndex(allScenes, scene1.id))}

\* fetchSwissPair: the second call of the pool, on the fresh list.
SwissRetry(fresh, url0, allScenes) ==
  UNION {IF n.scene = NoScene THEN {Thrown(n.st)} ELSE SwissPaired(n.st, allScenes, n.scene)
           : n \in NextScene([fresh.st EXCEPT !.hist.fetch.refetched = hasFilter(url0)],
                             fresh.scenes, buildFilterKey(url0))}

\* fetchSwissPair, pool exhausted: the filtered cache is cleared, the pool is
\* reset, the filtered list is fetched afresh and the pool is asked once more.
SwissExhausted(st, url0, allScenes) ==
  SwissRetry(IF hasFilter(url0)
             THEN getFilteredScenesCached(
                    [clearFilteredCache(st) EXCEPT
                       !.shuffledFilteredScenes = << >>, !.shuffleIndex = 0,
                       !.shuffleFilterKey = NullKey, !.removedSceneIds = {},
                       !.hist.race = NoHistory.race,
                       !.hist.fetch.invalidated = TRUE], url0)
             ELSE Listing([clearFilteredCache(st) EXCEPT
                             !.shuffledFilteredScenes = << >>, !.shuffleIndex = 0,
                             !.shuffleFilterKey = NullKey, !.removedSceneIds = {},
                             !.hist.race = NoHistory.race,
                             !.hist.fetch.invalidated = TRUE],
                          allScenes, Len(allScenes)),
             url0, allScenes)

\* fetchSwissPair, from the two lists on.
SwissPairFrom(st, url0, allScenes, filteredScenes) ==
  IF Len(allScenes) < 2 THEN {Thrown(st)}
  ELSE UNION {IF n.scene = NoScene THEN SwissExhausted(n.st, url0, allScenes)
              ELSE SwissPaired(n.st, allScenes, n.scene)
                : n \in NextScene(st, filteredScenes, buildFilterKey(url0))}

\* fetchSwissPair without a filter: the list of all scenes is the filtered list.
SwissOfAll(allResult, url0) ==
  SwissPairFrom(allResult.st, url0, allResult.scenes, allResult.scenes)

\* fetchSwissPair with a filter, both lists at hand.
SwissOfBoth(allResult, url0, filteredScenes) ==
  SwissPairFrom(allResult.st, url0, allResult.scenes, filteredScenes)

\* fetchSwissPair with a filter: Promise.all of both getters.
SwissOfFiltered(filteredResult, url0) ==
  SwissOfBoth(getAllScenesCached(filteredResult.st), url0, filteredResult.scenes)

\* fetchSwissPair().
fetchSwissPair(st0, url0) ==
  IF hasFilter(url0)
  THEN SwissOfFiltered(getFilteredScenesCached(BeginFetch(st0, "swiss"), url0), url0)
  ELSE SwissOfAll(getAllScenesCached(BeginFetch(st0, "swiss")), url0)

\* findLowestRated(scenes, excludeId): [scene, index], index 0-based.
findLowestRated(scenes, excludeId) ==
  LET rated == {i \in 1..Len(scenes) :
                  scenes[i].id # excludeId /\ scenes[i].rating100 # NULL}
      other == {i \in 1..Len(scenes) : scenes[i].id # excludeId}
      i == IF rated # {} THEN CHOOSE k \in rated : \A m \in rated : m <= k
           ELSE CHOOSE k \in other : \A m \in other : k <= m
  IN  [scene |-> scenes[i], index |-> i - 1]

\* gauntletFalling && gauntletFallingScene, with the second test negated.
InFallingModeNegated(st) == st.gauntletFalling /\ st.gauntletFallingScene = NoScene

\* gauntletFalling && gauntletFallingScene.
InFallingMode(st) == st.gauntletFalling /\ st.gauntletFallingScene # NoScene

\* fetchGauntletPair, falling, with a filter that forgets gauntletDefeated.
FallingPairIgnoresDefeated(st, allScenes) ==
  LET fallingIndex == FindIndex(allScenes, st.gauntletFallingScene.id)
      belowOpponents ==
        {i \in 1..Len(allScenes) :
           /\ allScenes[i].id # st.gauntletFallingScene.id
           /\ i - 1 > fallingIndex}
  IN  IF belowOpponents = {}
      THEN {Result(updateSceneRating(st, st.gauntletFallingScene.id, 1), "placement",
                   << st.gauntletFallingScene >>, << Len(allScenes) >>)}
      ELSE LET nextBelow == CHOOSE i \in belowOpponents : \A j \in belowOpponents : i <= j
           IN  {Result([st EXCEPT !.gauntletChampionRank = fallingIndex + 1,
                                  !.hist.fall = Append(@, [id |-> allScenes[nextBelow].id,
                                                           index |-> nextBelow - 1])],
                       "pair",
                       << st.gauntletFallingScene, allScenes[nextBelow] >>,
                       << fallingIndex + 1, nextBelow >>)}

\* fetchGauntletPair, falling: the next opponent below, or the placement at
\* the bottom.
FallingPair(st, allScenes) ==
  LET fallingIndex == FindIndex(allScenes, st.gauntletFallingScene.id)
      belowOpponents ==
        {i \in 1..Len(allScenes) :
           /\ allScenes[i].id # st.gauntletFallingScene.id
           /\ allScenes[i].id \notin Range(st.gauntletDefeated)
           /\ i - 1 > fallingIndex}
  IN  IF belowOpponents = {}
      THEN {Result(updateSceneRating(st, st.gauntletFallingScene.id, 1), "placement",
                   << st.gauntletFallingScene >>, << Len(allScenes) >>)}
      ELSE LET nextBelow == CHOOSE i \in belowOpponents : \A j \in belowOpponents : i <= j
           IN  {Result([st EXCEPT !.gauntletChampionRank = fallingIndex + 1,
                                  !.hist.fall = Append(@, [id |-> allScenes[nextBelow].id,
                                                           index |-> nextBelow - 1])],
                       "pair",
                       << st.gauntletFallingScene, allScenes[nextBelow] >>,
                       << fallingIndex + 1, nextBelow >>)}

\* challengerIndex >= 0 ? challengerIndex + 1 : allScenes.length.
ChallengerRank(allScenes, id) ==
  IF FindIndex(allScenes, id) >= 0 THEN FindIndex(allScenes, id) + 1 ELSE Len(allScenes)

\* The challenger meets the lowest rated scene.
Challenge(st, allScenes, challenger) ==
  Result([st EXCEPT !.gauntletChampionRank = ChallengerRank(allScenes, challenger.id)],
         "pair",
         << challenger, findLowestRated(allScenes, challenger.id).scene >>,
         << ChallengerRank(allScenes, challenger.id),
            findLowestRated(allScenes, challenger.id).index + 1 >>)

\* The challenger is drawn from the pool over the filtered list.
ChallengerFrom(filtered, url0, allScenes) ==
  IF Len(filtered.scenes) < 1 THEN {Thrown(filtered.st)}
  ELSE {IF n.scene = NoScene THEN Thrown(n.st) ELSE Challenge(n.st, allScenes, n.scene)
          : n \in NextScene(filtered.st, filtered.scenes, buildFilterKey(url0))}

\* fetchGauntletPair / fetchChampionPair without a champion: a challenger from
\* the pool against the lowest rated scene.
ChallengerPair(st, url0, allScenes) ==
  ChallengerFrom(IF hasFilter(url0) THEN getFilteredScenesCached(st, url0)
                 ELSE Listing(st, allScenes, Len(allScenes)),
                 url0, allScenes)

\* fetchGauntletPair / fetchChampionPair with a champion: the closest opponent
\* not yet defeated, or the victory when none is left.
ChampionPair(st, allScenes) ==
  LET championIndex == FindIndex(allScenes, st.gauntletChampion.id)
      remainingOpponents ==
        {i \in 1..Len(allScenes) :
           /\ allScenes[i].id # st.gauntletChampion.id
           /\ allScenes[i].id \notin Range(st.gauntletDefeated)
           /\ \/ i - 1 < championIndex
              \/ allScenes[i].rating100 >= st.gauntletChampion.rating100}
  IN  IF remainingOpponents = {}
      THEN {Result([st EXCEPT !.gauntletChampionRank = 1], "victory",
                   << st.gauntletChampion >>, << 1 >>)}
      ELSE LET nextOpponent == CHOOSE i \in remainingOpponents :
                                 \A j \in remainingOpponents : j <= i
           IN  {Result([st EXCEPT !.gauntletChampionRank =
                          IF championIndex >= 0 THEN championIndex + 1 ELSE 1], "pair",
                       << st.gauntletChampion, allScenes[nextOpponent] >>,
                       << championIndex + 1, nextOpponent >>)}

\* totalScenesCount = allResult.count || allScenes.length.
WithTotal(allResult) ==
  [st |-> [allResult.st EXCEPT !.totalScenesCount =
             IF allResult.count # 0 THEN allResult.count ELSE Len(allResult.scenes)],
   scenes |-> allResult.scenes]

\* fetchGauntletPair, from the list of all scenes on.
GauntletPairFrom(all, url0) ==
  IF Len(all.scenes) < 2 THEN fetchRandomScenes(all.st, url0)
  ELSE IF InFallingMode(all.st) THEN FallingPair(all.st, all.scenes)
  ELSE IF all.st.gauntletChampion = NoScene
  THEN ChallengerPair([all.st EXCEPT !.gauntletDefeated = << >>,
                                     !.gauntletFalling = FALSE,
                                     !.gauntletFallingScene = NoScene,
                                     !.shared = @ \ {"falling"}],
                      url0, all.scenes)
  ELSE ChampionPair(all.st, all.scenes)

\* fetchGauntletPair().
fetchGauntletPair(st0, url0) ==
  GauntletPairFrom(WithTotal(getAllScenesCached(BeginFetch(st0, "gauntlet"))), url0)

\* fetchChampionPair, from the list of all scenes on.
ChampionPairFrom(all, url0) ==
  IF Len(all.scenes) < 2 THEN fetchRandomScenes(all.st, url0)
  ELSE IF all.st.gauntletChampion = NoScene
  THEN ChallengerPair([all.st EXCEPT !.gauntletDefeated = << >>], url0, all.scenes)
  ELSE ChampionPair(all.st, all.scenes)

\* fetchChampionPair().
fetchChampionPair(st0, url0) ==
  ChampionPairFrom(WithTotal(getAllScenesCached(BeginFetch(st0, "champion"))), url0)

(***************************************************************************)
(* HANDLERS                                                                *)
(*                                                                         *)
(* A handler is a function from the state to the set of states it can      *)
(* leave behind.  A fetch whose lists are in memory runs to its end within *)
(* the handler that called loadNewPair (all its awaits are on resolved     *)
(* promises); otherwise loadNewPair is suspended at the fetch's first      *)
(* await and the rest runs, in one piece, when the answer arrives.         *)
(***************************************************************************)

\* The gauntlet sub-state of the module state.
SubState(st) ==
  IF st.gauntletFalling /\ st.gauntletFallingScene # NoScene THEN "Falling"
  ELSE IF st.gauntletFalling \/ st.gauntletFallingScene # NoScene THEN "Broken"
  ELSE IF st.gauntletChampion # NoScene THEN "Climbing"
  ELSE "NoChampion"

\* showPlacementScreen(scene, rank, finalRating).  Reading scene.files of a
\* null scene throws before anything is changed.
showPlacementScreen(st, scene, rank, finalRating) ==
  IF scene = NoScene THEN st
  ELSE saveState([st EXCEPT !.view.area = "placement",
                            !.gauntletFalling = FALSE,
                            !.gauntletFallingScene = NoScene,
                            !.gauntletChampion = NoScene,
                            !.gauntletWins = 0,
                            !.gauntletDefeated = << >>,
                            !.shared = @ \ {"champion", "falling"},
                            !.hist.fall = << >>,
                            !.hist.result = "placement",
                            !.hist.before = SubState(st)])

\* The history notes the placement screen: the scene, and the rank and the
\* rating the screen reports.
Placed(st, how, scene, rank, finalRating) ==
  IF scene = NoScene THEN st
  ELSE [st EXCEPT !.hist.placed = [how |-> how, id |-> scene.id, rank |-> rank,
                                   rating |-> finalRating]]

\* The fetch of a mode will await something that is not in memory.
Suspends(st, mode, url0) ==
  \/ ~IsSome(st.memoryCache.allScenes)
  \/ /\ hasFilter(url0)
     /\ ~MemoryFilteredHit(st, buildFilterKey(url0))
     /\ \/ mode = "swiss"
        \/ mode = "champion" /\ st.gauntletChampion = NoScene
        \/ mode = "gauntlet" /\ ~InFallingMode(st) /\ st.gauntletChampion = NoScene

\* The scenes of the pair a fetch returned that are objects of the list of
\* all scenes.  fetchRandomScenes (the only fetch without ranks) returns
\* objects of its own; the opponent is always taken from the list of all
\* scenes; the first scene is the falling scene, the champion, or a scene
\* of the pool, which is drawn from the list of all scenes without a filter.
PairShared(st, r, mode, url0) ==
  IF r.ranks = << NULL, NULL >> THEN {}
  ELSE IF (IF mode = "gauntlet" /\ InFallingMode(st) THEN "falling" \in r.st.shared
           ELSE IF mode # "swiss" /\ st.gauntletChampion # NoScene
           THEN "champion" \in r.st.shared
           ELSE ~hasFilter(url0))
  THEN {"left", "right"}
  ELSE {"right"}

\* loadNewPair from its fetch on: the fetch of the mode and what is rendered.
FinishLoad(st, mode, url0) ==
  LET before == SubState(st)
      fetched == IF mode = "gauntlet" THEN fetchGauntletPair(st, url0)
                 ELSE IF mode = "champion" THEN fetchChampionPair(st, url0)
                 ELSE fetchSwissPair(st, url0)
      Shown(r) ==
        LET st1 == [r.st EXCEPT !.hist.fetch.outcome = r.kind, !.hist.result = "none",
                                !.hist.before = "none"]
        IN  IF r.kind = "victory"
            THEN [st1 EXCEPT !.view.area = "victory-" \o mode,
                             !.hist.result = "victory", !.hist.before = before]
            ELSE IF r.kind = "placement"
            THEN Placed(showPlacementScreen([st1 EXCEPT !.hist.before = before],
                                            r.scenes[1], r.ranks[1], 1),
                        "bottom", r.scenes[1], r.ranks[1], 1)
            ELSE IF r.kind = "error"
            THEN [st1 EXCEPT !.view.area = "error"]
            ELSE saveState([st1 EXCEPT !.currentPair = [left |-> r.scenes[1],
                                                        right |-> r.scenes[2]],
                                       !.currentRanks = [left |-> r.ranks[1],
                                                         right |-> r.ranks[2]],
                                       !.shared = (@ \ {"left", "right"})
                                                    \cup PairShared(st, r, mode, url0),
                                       !.view.area = "pair",
                                       !.hist.turn.decided = {}])
  IN  {Shown(r) : r \in fetched}

\* loadNewPair().
loadNewPair(st) ==
  UNION {IF Suspends(st1, st1.currentMode, st1.url)
         THEN {[st1 EXCEPT !.loads = @ (+) SetToBag({[mode |-> st1.currentMode,
                                                       url |-> st1.url]})]}
         ELSE FinishLoad(st1, st1.currentMode, st1.url)
           : st1 \in {[st EXCEPT !.disableChoice = FALSE,
                                 !.view.area = IF @ = "pair" THEN @ ELSE "loading"]}}

\* setTimeout(callback, ms).
setTimeout(st, timer) == [st EXCEPT !.timers = @ (+) SetToBag({timer})]

LoadTimer == [kind |-> "load", rank |-> NULL, rating |-> NULL]
PlacementTimer(rank, rating) == [kind |-> "placement", rank |-> rank, rating |-> rating]

\* The updateSceneRating calls of a comparison are issued.
IssueWrites(st, cmp, winnerId) ==
  [st EXCEPT !.pendingWrites = @ (+) SetToBag(
     {[id |-> w.id, rating100 |-> Max(1, Min(100, w.rating100))] : w \in cmp.writes})]

\* handleComparison is called by handleChooseScene: [st, cmp].
ComparedBy(st, cmp, winnerId) == [st |-> IssueWrites(st, cmp, winnerId), cmp |-> cmp]

\* removeFromFilteredPool(sceneId): the pool and the filtered list in memory.
RemoveFromPool(st, sceneId) ==
  LET st1 == WithPool(st, removeFromFilteredPool(PoolOf(st), sceneId)) IN
  [st1 EXCEPT
     !.memoryCache.filteredScenes =
        IF IsSome(@) /\ FindIndex(Get(@), sceneId) # 0 - 1
        THEN Some(SpliceOut(Get(@), FindIndex(Get(@), sceneId))) ELSE @,
     !.refreshes = BagOfAll(LAMBDA r : IF r.bucket = "filtered"
                                       THEN [r EXCEPT !.since = @ \cup {sceneId}]
                                       ELSE r, @),
     !.hist.race.gone = @ \cup {sceneId},
     !.hist.judged = @ \cup {sceneId},
     !.hist.rated = @ \cup {sceneId},
     !.hist.cycleFixed = FALSE, !.hist.cyclePicks = << >>, !.hist.cycleAvail = {}]

\* The champion lost without the old champion being recorded as falling.
ChampionLostFlagOnly(st, winnerScene, loserScene, newWinnerRating) ==
  [st EXCEPT !.gauntletFalling = TRUE,
             !.gauntletDefeated = << winnerScene.id >>,
             !.gauntletChampion = [winnerScene EXCEPT !.rating100 = newWinnerRating],
             !.gauntletWins = 1]

\* The name under which currentPair holds the scene with an id.
SideOf(pair, id) == IF id = pair.left.id THEN "left" ELSE "right"

\* name = <the object held under `from`>: the names that hold an object of
\* the list of all scenes afterwards.
SharedAs(names, name, from) ==
  IF from \in names THEN names \cup {name} ELSE names \ {name}

\* gauntletChampion.rating100 = rating.  The champion is the object the pair
\* was made of: when that is an object of memoryCache.allScenes, the list
\* holds the new rating from now on, at the position the scene had.
ChampionRated(st, rating) ==
  [st EXCEPT
     !.gauntletChampion.rating100 = rating,
     !.memoryCache.allScenes =
        IF "champion" \in st.shared /\ IsSome(@)
        THEN Some([i \in 1..Len(Get(@)) |->
                     IF Get(@)[i].id = st.gauntletChampion.id
                     THEN [Get(@)[i] EXCEPT !.rating100 = rating] ELSE Get(@)[i]])
        ELSE @]

\* handleChooseScene, gauntlet: the champion lost and starts falling.
ChampionLost(st, winnerScene, loserScene, newWinnerRating) ==
  ChampionRated(
    [st EXCEPT !.gauntletFalling = TRUE,
               !.gauntletFallingScene = loserScene,
               !.gauntletDefeated = << winnerScene.id >>,
               !.gauntletChampion = winnerScene,
               !.gauntletWins = 1,
               !.shared = SharedAs(SharedAs(@, "falling",
                                            SideOf(st.currentPair, loserScene.id)),
                                   "champion", SideOf(st.currentPair, winnerScene.id)),
               !.hist.fall = << >>],
    newWinnerRating)

\* handleChooseScene: the champion won.
ChampionWon(st, loserId, newWinnerRating) ==
  ChampionRated([st EXCEPT !.gauntletDefeated = Append(@, loserId),
                           !.gauntletWins = @ + 1],
                newWinnerRating)

\* handleChooseScene: the winner becomes the champion.
NewChampion(st, winnerScene, loserId, newWinnerRating) ==
  ChampionRated(
    [st EXCEPT !.gauntletChampion = winnerScene,
               !.gauntletDefeated = << loserId >>,
               !.gauntletWins = 1,
               !.shared = SharedAs(@, "champion", SideOf(st.currentPair, winnerScene.id))],
    newWinnerRating)

\* The falling scene won, but takes the rating and the rank of the scene it beat.
ChosenWhileFallingTakesPlace(st, winnerId, loserRating, loserRank) ==
  IF winnerId = st.gauntletFallingScene.id
  THEN setTimeout(updateSceneRating(st, st.gauntletFallingScene.id, loserRating),
                  PlacementTimer(OrElse(loserRank, 1), loserRating))
  ELSE setTimeout(saveState([st EXCEPT !.gauntletDefeated = Append(@, winnerId)]),
                  LoadTimer)

\* handleChooseScene in Gauntlet mode while a scene is falling.
ChosenWhileFalling(st, winnerId, loserRating, loserRank) ==
  IF winnerId = st.gauntletFallingScene.id
  THEN setTimeout(updateSceneRating(st, st.gauntletFallingScene.id,
                                    Min(100, loserRating + 1)),
                  PlacementTimer(Max(1, OrElse(loserRank, 1) - 1),
                                 Min(100, loserRating + 1)))
  ELSE setTimeout(saveState([st EXCEPT !.gauntletDefeated = Append(@, winnerId)]),
                  LoadTimer)

\* handleChooseScene in Gauntlet mode, climbing, after the comparison.
ChosenInGauntlet(c, champion, winnerScene, loserScene) ==
  setTimeout(saveState(
      IF champion # NoScene /\ winnerScene.id = champion.id
      THEN ChampionWon(c.st, loserScene.id, c.cmp.newWinnerRating)
      ELSE IF champion # NoScene
      THEN ChampionLost(c.st, winnerScene, loserScene, c.cmp.newWinnerRating)
      ELSE NewChampion(c.st, winnerScene, loserScene.id, c.cmp.newWinnerRating)),
    LoadTimer)

\* Champion mode with the branches of Gauntlet mode.
ChosenInChampionAsGauntlet(c, champion, winnerScene, loserScene) ==
  ChosenInGauntlet(c, champion, winnerScene, loserScene)

\* The history notes a choice against the champion.
Dethroned(st, champion, winnerScene, loserScene) ==
  IF champion # NoScene /\ winnerScene.id # champion.id
  THEN [st EXCEPT !.hist.choice = [lost |-> TRUE, winner |-> winnerScene.id,
                                   loser |-> loserScene.id]]
  ELSE st

\* handleChooseScene in Champion mode, after the comparison.
ChosenInChampion(c, champion, winnerScene, loserScene) ==
  setTimeout(saveState(
      IF champion # NoScene /\ winnerScene.id = champion.id
      THEN ChampionWon(c.st, loserScene.id, c.cmp.newWinnerRating)
      ELSE NewChampion(Dethroned(c.st, champion, winnerScene, loserScene),
                       winnerScene, loserScene.id, c.cmp.newWinnerRating)),
    LoadTimer)

\* handleChooseScene in Swiss mode, after the comparison: both scenes of the
\* pair leave the pool.
ChosenInSwiss(c, left, right) ==
  setTimeout(saveState(RemoveFromPool(RemoveFromPool(c.st, left.id), right.id)),
             LoadTimer)

\* handleChooseScene from the lookup of the two scenes on.
Chosen(st, winnerScene, loserScene, loserRank) ==
  IF st.currentMode = "gauntlet" /\ InFallingMode(st)
  THEN ChosenWhileFalling(st, winnerScene.id, OrElse(loserScene.rating100, 50), loserRank)
  ELSE IF st.currentMode = "gauntlet"
  THEN ChosenInGauntlet(
         ComparedBy(st, handleComparison(
                          ModeContext(st.currentMode, st.gauntletChampion.id,
                                      st.gauntletFalling, st.gauntletFallingScene.id),
                          winnerScene.id, loserScene.id,
                          OrElse(winnerScene.rating100, 50),
                          OrElse(loserScene.rating100, 50),
                          winnerScene.play_count, loserScene.play_count, loserRank),
                    winnerScene.id),
         st.gauntletChampion, winnerScene, loserScene)
  ELSE IF st.currentMode = "champion"
  THEN ChosenInChampion(
         ComparedBy(st, handleComparison(
                          ModeContext(st.currentMode, st.gauntletChampion.id,
                                      st.gauntletFalling, st.gauntletFallingScene.id),
                          winnerScene.id, loserScene.id,
                          OrElse(winnerScene.rating100, 50),
                          OrElse(loserScene.rating100, 50),
                          winnerScene.play_count, loserScene.play_count, loserRank),
                    winnerScene.id),
         st.gauntletChampion, winnerScene, loserScene)
  ELSE ChosenInSwiss(
         ComparedBy(st, handleComparison(
                          ModeContext(st.currentMode, st.gauntletChampion.id,
                                      st.gauntletFalling, st.gauntletFallingScene.id),
                          winnerScene.id, loserScene.id,
                          OrElse(winnerScene.rating100, 50),
                          OrElse(loserScene.rating100, 50),
                          winnerScene.play_count, loserScene.play_count, NULL),
                    winnerScene.id),
         st.currentPair.left, st.currentPair.right)

\* The scene of the pair with an id, as the handler looks it up:
\* id === currentPair.left.id ? currentPair.left : currentPair.right.
OfPair(pair, id) == IF id = pair.left.id THEN pair.left ELSE pair.right

\* loserId = winnerId === currentPair.left.id ? currentPair.right.id : currentPair.left.id.
LoserId(pair, winnerId) == IF winnerId = pair.left.id THEN pair.right.id ELSE pair.left.id

\* handleChooseScene(event) for a click on the card of a side.  The cards
\* carry what was rendered: the ids and ratings of the current pair.  With no
\* current pair the handler throws at its first read of it.
handleChooseScene(st, side) ==
  IF st.disableChoice THEN {st}
  ELSE IF st.currentPair.left = NoScene \/ st.currentPair.right = NoScene
  THEN {[st EXCEPT !.disableChoice = TRUE]}
  ELSE {Chosen([st EXCEPT !.disableChoice = TRUE, !.decisions = @ - 1,
                          !.hist.turn = [decided |-> {st.currentPair.left.id,
                                                       st.currentPair.right.id},
                                         restored |-> FALSE,
                                         again |-> st.hist.turn.decided # {}
                                                     /\ st.view.area = "pair"]],
               OfPair(st.currentPair, st.currentPair[side].id),
               OfPair(st.currentPair, LoserId(st.currentPair, st.currentPair[side].id)),
               IF LoserId(st.currentPair, st.currentPair[side].id) = st.currentPair.left.id
               THEN st.currentRanks.left ELSE st.currentRanks.right)}

\* The reset of the run that the mode toggle, the skip and the refresh share.
ResetRun(st) ==
  [st EXCEPT !.gauntletChampion = NoScene, !.gauntletWins = 0,
             !.gauntletDefeated = << >>, !.gauntletFalling = FALSE,
             !.gauntletFallingScene = NoScene,
             !.shared = @ \ {"champion", "falling"}, !.hist.fall = << >>]

\* The reset of the pool: empty queue, no key.
ResetShuffle(st) ==
  [st EXCEPT !.shuffledFilteredScenes = << >>, !.shuffleIndex = 0,
             !.shuffleFilterKey = NullKey]

\* The history notes the switch: st is the state the button was clicked in,
\* st1 the state the handler calls loadNewPair in.
Toggled(st, st1) ==
  [st1 EXCEPT !.hist.toggle = [from |-> SubState(st), moved |-> st.shuffleIndex > 0,
                               cursor |-> st1.shuffleIndex]]

\* The mode toggle without `shuffleIndex = 0`.
ToggleModeKeepsCursor(st, newMode) ==
  IF newMode = st.currentMode THEN {st}
  ELSE loadNewPair(saveState(Toggled(st, Disturb([ResetRun(st) EXCEPT
                                                    !.currentMode = newMode]))))

\* Click on the button of another mode.  loadNewPair() runs up to its first
\* await, saveState() follows, and only then loadNewPair goes on.
ToggleMode(st, newMode) ==
  IF newMode = st.currentMode THEN {st}
  ELSE loadNewPair(saveState(Toggled(st, Disturb([ResetRun(st) EXCEPT
                                                    !.currentMode = newMode,
                                                    !.shuffleIndex = 0]))))

\* Click on Skip, or the space bar.
Skip(st) ==
  IF st.currentMode \in {"gauntlet", "champion"} /\ st.gauntletChampion # NoScene THEN {st}
  ELSE IF st.disableChoice THEN {st}
  ELSE LET st1 == [st EXCEPT !.disableChoice = TRUE,
                             !.hist.turn.again = st.hist.turn.decided # {}
                                                    /\ st.view.area = "pair"] IN
       loadNewPair(IF st.currentMode \in {"gauntlet", "champion"}
                   THEN saveState(ResetRun(st1)) ELSE st1)

\* Click on Refresh Cache.
RefreshCache(st) ==
  IF st.disableChoice THEN {st}
  ELSE loadNewPair(saveState(ResetRun(
         [ResetShuffle(clearSceneCache(st)) EXCEPT !.removedSceneIds = {},
                                                   !.hist.race = NoHistory.race])))

\* Click on Retry of the error screen (of a "No scenes" or "Not enough" error).
Retry(st) ==
  loadNewPair([ResetShuffle(clearFilteredCache(st)) EXCEPT
                 !.removedSceneIds = {}, !.hist.race = NoHistory.race])

\* Click on Start New Run of the victory or placement screen.
StartNewRun(st) ==
  IF st.view.area = "placement" THEN loadNewPair(st)
  ELSE IF st.view.area = "victory-gauntlet"
  THEN loadNewPair(saveState([ResetRun(st) EXCEPT !.gauntletChampionRank = 0]))
  ELSE loadNewPair(saveState([st EXCEPT !.gauntletChampion = NoScene, !.gauntletWins = 0,
                                        !.gauntletChampionRank = 0,
                                        !.gauntletDefeated = << >>,
                                        !.shared = @ \ {"champion"}]))

\* restoreCurrentPair(): the saved pair is rendered; the list of all scenes is
\* fetched in the background when memory has none.
restoreCurrentPair(st) ==
  LET st1 == [st EXCEPT !.disableChoice = FALSE, !.view.area = "pair",
                        !.hist.turn.decided = {},
                        !.hist.turn.restored =
                           st.hist.turn.decided = {st.currentPair.left.id,
                                                   st.currentPair.right.id}] IN
  IF ~IsSome(st.memoryCache.allScenes)
  THEN [st1 EXCEPT !.loads = @ (+) SetToBag({[mode |-> "prewarm", url |-> st.url]})]
  ELSE st1

\* openRankingModal().
openRankingModal(st0) ==
  LET loaded == loadState(st0)
      hasState == loaded.hasState
      filtersChanged == hasState /\ loaded.st.savedFilterParams # st0.url
      st1 == IF filtersChanged
             THEN [Invalidated(ResetShuffle(ResetRun(loaded.st))) EXCEPT
                     !.currentPair = [left |-> NoScene, right |-> NoScene],
                     !.currentRanks = [left |-> NULL, right |-> NULL],
                     !.gauntletChampionRank = 0,
                     !.savedFilterParams = st0.url,
                     !.memoryCache.filteredScenes = None,
                     !.memoryCache.filterKey = NullKey,
                     !.memoryCache.origin = NullKey]
             ELSE loaded.st
      noPair == st1.currentPair.left = NoScene \/ st1.currentPair.right = NoScene
      st2 == [st1 EXCEPT !.view.modal = "open"]
  IN  IF st0.view.modal = "hidden"
      THEN IF filtersChanged \/ noPair THEN loadNewPair(st2) ELSE {st2}
      ELSE LET st3 == [st2 EXCEPT !.savedFilterParams = IF @ = "" THEN st0.url ELSE @]
           IN  IF hasState /\ ~noPair /\ ~filtersChanged
               THEN {restoreCurrentPair(st3)}
               ELSE loadNewPair(st3)

\* closeRankingModal(): the modal is hidden and kept for reuse.
closeRankingModal(st) == [st EXCEPT !.view.modal = "hidden"]

\* The page is loaded again: the script starts from its module state, with
\* the IndexedDB store and localStorage the earlier page left.  The answers to
\* the requests of the earlier page are never handled.
reloadPage(st) ==
  [ModuleState(st.server, st.filterMatch, st.url, st.idbOk, st.now) EXCEPT
     !.idb = st.idb,
     !.localStorage = st.localStorage,
     !.pendingWrites = st.pendingWrites,
     !.decisions = st.decisions,
     !.hist = st.hist]

\* A setTimeout callback of handleChooseScene runs.
RunTimer(st, timer) ==
  LET st1 == [st EXCEPT !.timers = @ (-) SetToBag({timer})] IN
  IF timer.kind = "load" THEN loadNewPair(st1)
  ELSE IF st1.gauntletFallingScene = NoScene THEN {st1}
  ELSE {Placed(saveState(showPlacementScreen(st1, st1.gauntletFallingScene, timer.rank,
                                             timer.rating)),
               "won", st1.gauntletFallingScene, timer.rank, timer.rating)}

\* A suspended loadNewPair (or the background fetch of restoreCurrentPair) resumes.
ResumeLoad(st, load) ==
  LET st1 == [st EXCEPT !.loads = @ (-) SetToBag({load})] IN
  IF load.mode = "prewarm" THEN {getAllScenesCached(st1).st}
  ELSE FinishLoad(st1, load.mode, load.url)

\* The Gateway applied a sceneUpdate and answered: the cache in memory follows.
WriteDone(st, w) ==
  updateSceneInCache([st EXCEPT !.pendingWrites = @ (-) SetToBag({w}),
                                !.server[w.id].rating100 = w.rating100],
                     w.id, w.rating100)

\* A sceneUpdate failed: the error is logged, nothing else happens.
WriteLost(st, w) ==
  [st EXCEPT !.pendingWrites = @ (-) SetToBag({w}),
             !.hist.write = [id |-> w.id, rating100 |-> w.rating100, failed |-> TRUE]]

(***************************************************************************)
(* Spec: a session with the modal                                          *)
(***************************************************************************)

\* Scenes of the collection.
NumScenes == 3
\* Choices the user makes in a session under a filter, and in a session
\* without one.
MaxDecisions == 2
MaxOpenDecisions == 1
\* The clock stops here.
MaxNow == 2
\* Suspended loads, pending timers, mutations and refreshes in flight.
MaxLoads == 1
MaxTimers == 1
MaxWrites == 2
MaxRefreshes == 2

SceneIds == 1..NumScenes

\* The URLs with a filter the user moves between: two filters that overlap
\* and a filter that matches nothing.
FilterUrls == {"f0", "f1", "f2"}

\* What the Gateway lists under the filters.
FilterMatches == [f0 |-> {}, f1 |-> 1..(NumScenes - 1), f2 |-> 2..NumScenes]

\* The collection at the start: a rated scene with many plays, a rated scene
\* with few, and unrated scenes without a play count.
Collection ==
  [i \in SceneIds |->
     IF i = 1 THEN [rating100 |-> 60, play_count |-> 20]
     ELSE IF i = 2 THEN [rating100 |-> 50, play_count |-> 0]
     ELSE [rating100 |-> NULL, play_count |-> NoPlayCount]]

\* The exploration stops at the bounds.
Bounded(st) ==
  /\ st.decisions >= 0
  /\ BagCardinality(st.loads) <= MaxLoads
  /\ BagCardinality(st.timers) <= MaxTimers
  /\ BagCardinality(st.pendingWrites) <= MaxWrites
  /\ BagCardinality(st.refreshes) <= MaxRefreshes

\* The program moves to one of the states a handler can leave behind.
Step(states) ==
  /\ \E st \in states : Bounded(st) /\ st # StateNow /\ Becomes(st)
  /\ UNCHANGED cmpVars

ModalOpen == view.modal = "open"

\* A session under one URL, with or without a filter; IndexedDB works and
\* the session is short enough for nothing to grow stale.
Init ==
  /\ \E url0 \in {"", "f1"} :
       Is([ModuleState(Collection, FilterMatches, url0, TRUE, 0) EXCEPT
             !.decisions = IF url0 = "" THEN MaxOpenDecisions ELSE MaxDecisions])
  /\ cmpArgs = << >>
  /\ cmpResult = << >>

\* The floating button is clicked.
OpenRankingModal ==
  /\ ~ModalOpen
  /\ Step(openRankingModal(StateNow))

\* The backdrop, the close button or Escape.
CloseRankingModal ==
  /\ ModalOpen
  /\ Step({closeRankingModal(StateNow)})

\* The filters the user moves between in SpecCache: one that matches nothing
\* and one that matches scenes.
CacheUrls == {"f0", "f1"}

\* The user moves to another filter of the host page while the modal is closed.
Navigate ==
  /\ ~ModalOpen
  /\ \E url0 \in CacheUrls : Step({[StateNow EXCEPT !.url = url0]})

\* A card is clicked, or an arrow key pressed.
ChooseScene ==
  /\ ModalOpen /\ view.area = "pair"
  /\ \E side \in {"left", "right"} : Step(handleChooseScene(StateNow, side))

SkipPair ==
  /\ ModalOpen
  /\ Step(Skip(StateNow))

ModeToggle ==
  /\ ModalOpen
  /\ \E newMode \in Modes : Step(ToggleMode(StateNow, newMode))

RefreshCacheClick ==
  /\ ModalOpen
  /\ Step(RefreshCache(StateNow))

RetryClick ==
  /\ ModalOpen /\ view.area = "error"
  /\ Step(Retry(StateNow))

StartNewRunClick ==
  /\ ModalOpen /\ view.area \in {"placement", "victory-gauntlet", "victory-champion"}
  /\ Step(StartNewRun(StateNow))

\* A timer of handleChooseScene (800 or 1500 ms) runs out.  The Gateway has
\* answered the mutations of that choice by then.
TimerFires ==
  /\ pendingWrites = EmptyBag
  /\ \E timer \in BagToSet(timers) : Step(RunTimer(StateNow, timer))

LoadResumes ==
  \E load \in BagToSet(loads) : Step(ResumeLoad(StateNow, load))

WriteSucceeds ==
  \E w \in BagToSet(pendingWrites) : Step({WriteDone(StateNow, w)})

WriteFails ==
  \E w \in BagToSet(pendingWrites) : Step({WriteLost(StateNow, w)})

RefreshArrives ==
  \E r \in BagToSet(refreshes) : Step({FinishRefresh(StateNow, r)})

\* The browser reloads the host page.
PageReload == Step({reloadPage(StateNow)})

Tick ==
  /\ now < MaxNow
  /\ Step({[StateNow EXCEPT !.now = @ + 1]})

Next ==
  \/ OpenRankingModal
  \/ ChooseScene
  \/ SkipPair
  \/ ModeToggle
  \/ RetryClick
  \/ StartNewRunClick
  \/ TimerFires
  \/ LoadResumes
  \/ WriteSucceeds

Spec == Init /\ [][Next]_vars

(***************************************************************************)
(* SpecGauntlet: a session of runs (Gauntlet and Champion modes)           *)
(***************************************************************************)

\* Choices the user makes in a session of runs.
MaxRunDecisions == 3

\* What an earlier page left in localStorage: the user had switched to a run
\* mode before the first pair was loaded.
SavedRun(mode, url0) ==
  [currentPair |-> [left |-> NoScene, right |-> NoScene],
   currentRanks |-> [left |-> NULL, right |-> NULL],
   currentMode |-> mode,
   gauntletChampion |-> NoScene,
   gauntletWins |-> 0,
   gauntletChampionRank |-> 0,
   gauntletDefeated |-> << >>,
   gauntletFalling |-> FALSE,
   gauntletFallingScene |-> NoScene,
   totalScenesCount |-> 0,
   savedFilterParams |-> url0]

GauntletInit ==
  /\ \E url0 \in {"", "f1"} :
       Is([ModuleState(Collection, FilterMatches, url0, TRUE, 0) EXCEPT
             !.localStorage = Some(SavedRun("gauntlet", url0)),
             !.decisions = MaxRunDecisions])
  /\ cmpArgs = << >>
  /\ cmpResult = << >>

\* The button of the other run mode is clicked.
RunModeToggle ==
  /\ ModalOpen
  /\ \E newMode \in {"gauntlet", "champion"} : Step(ToggleMode(StateNow, newMode))

GauntletNext ==
  \/ OpenRankingModal
  \/ ChooseScene
  \/ SkipPair
  \/ RunModeToggle
  \/ StartNewRunClick
  \/ TimerFires
  \/ LoadResumes
  \/ WriteSucceeds
  \/ WriteFails

SpecGauntlet == GauntletInit /\ [][GauntletNext]_vars

(***************************************************************************)
(* SpecCache: the caches while the user moves between filters              *)
(***************************************************************************)

\* The user opens and closes the modal under changing URLs, skips pairs and
\* clears the caches, time passes and background refreshes arrive; IndexedDB
\* works or fails throughout.  No pair is judged.
CacheInit ==
  /\ \E url0 \in CacheUrls, idbOk0 \in BOOLEAN :
       Is(ModuleState(Collection, FilterMatches, url0, idbOk0, 0))
  /\ cmpArgs = << >>
  /\ cmpResult = << >>

CacheNext ==
  \/ OpenRankingModal
  \/ CloseRankingModal
  \/ Navigate
  \/ SkipPair
  \/ RefreshCacheClick
  \/ RetryClick
  \/ LoadResumes
  \/ RefreshArrives
  \/ Tick

SpecCache == CacheInit /\ [][CacheNext]_vars

(***************************************************************************)
(* SpecTiers: the two cache tiers under one URL, across page loads         *)
(***************************************************************************)

\* The user opens and closes the modal, skips pairs and clears the caches
\* under one URL, with or without a filter; time passes, background refreshes
\* arrive and the page is reloaded; IndexedDB works or fails throughout.
TiersInit ==
  /\ \E url0 \in {"", "f1"}, idbOk0 \in BOOLEAN :
       Is(ModuleState(Collection, FilterMatches, url0, idbOk0, 0))
  /\ cmpArgs = << >>
  /\ cmpResult = << >>

TiersNext ==
  \/ OpenRankingModal
  \/ CloseRankingModal
  \/ SkipPair
  \/ RefreshCacheClick
  \/ LoadResumes
  \/ RefreshArrives
  \/ PageReload
  \/ Tick

SpecTiers == TiersInit /\ [][TiersNext]_vars

(***************************************************************************)
(* SpecFilters: judging pairs under changing filters                       *)
(***************************************************************************)

\* Choices the user makes in a session under changing filters.
MaxFilterDecisions == 1

\* The user judges a pair, closes the modal, moves to another filter and
\* opens the modal again; IndexedDB works and nothing grows stale.
FiltersInit ==
  /\ Is([ModuleState(Collection, FilterMatches, "f1", TRUE, 0) EXCEPT
          !.decisions = MaxFilterDecisions])
  /\ cmpArgs = << >>
  /\ cmpResult = << >>

\* The user moves between the two filters that match scenes.
FiltersNavigate ==
  /\ ~ModalOpen
  /\ \E url0 \in {"f1", "f2"} : Step({[StateNow EXCEPT !.url = url0]})

FiltersNext ==
  \/ OpenRankingModal
  \/ CloseRankingModal
  \/ FiltersNavigate
  \/ ChooseScene
  \/ TimerFires
  \/ LoadResumes
  \/ WriteSucceeds

SpecFilters == FiltersInit /\ [][FiltersNext]_vars

(***************************************************************************)
(* SpecRefresh: a pair is judged while a background refresh is in flight   *)
(***************************************************************************)

\* Under one filter the user judges a pair and skips pairs, time passes and
\* the background refreshes of the stale lists arrive; IndexedDB works.
RefreshInit ==
  /\ Is([ModuleState(Collection, FilterMatches, "f1", TRUE, 0) EXCEPT
          !.decisions = MaxFilterDecisions])
  /\ cmpArgs = << >>
  /\ cmpResult = << >>

RefreshNext ==
  \/ OpenRankingModal
  \/ ChooseScene
  \/ SkipPair
  \/ TimerFires
  \/ LoadResumes
  \/ WriteSucceeds
  \/ RefreshArrives
  \/ Tick

SpecRefresh == RefreshInit /\ [][RefreshNext]_vars

(***************************************************************************)
(* SpecStore: the cache functions while IndexedDB fails                    *)
(***************************************************************************)

\* The cache functions are called, each call with or without a failure of
\* IndexedDB during it, in the states a session under a filter passes through.
StoreInit ==
  /\ Is(ModuleState(Collection, FilterMatches, "f1", TRUE, 0))
  /\ cmpArgs = << >>
  /\ cmpResult = << >>

GetAllCall ==
  \E fault \in Faults : Step({getAllScenesCachedUnder(StateNow, fault)})

GetFilteredCall ==
  /\ hasFilter(url)
  /\ \E fault \in Faults : Step({getFilteredScenesCachedUnder(StateNow, url, fault)})

InvalidateFilteredCall ==
  \E fault \in Faults : Step({clearFilteredCacheUnder(StateNow, fault)})

InvalidateAllCall ==
  \E fault \in Faults : Step({clearSceneCacheUnder(StateNow, fault)})

StoreNext ==
  \/ OpenRankingModal
  \/ LoadResumes
  \/ PageReload
  \/ GetAllCall
  \/ GetFilteredCall
  \/ InvalidateFilteredCall
  \/ InvalidateAllCall

SpecStore == StoreInit /\ [][StoreNext]_vars

(***************************************************************************)
(* SpecRace: two loads in flight while the user moves between filters      *)
(***************************************************************************)

\* Loads suspended at once in SpecRace.
MaxRacingLoads == 2

RaceStep(states) ==
  /\ \E st \in states :
       /\ BagCardinality(st.loads) <= MaxRacingLoads
       /\ BagCardinality(st.refreshes) <= MaxRefreshes
       /\ st # StateNow
       /\ Becomes(st)
  /\ UNCHANGED cmpVars

\* The user opens and closes the modal and moves between two filters faster
\* than the Gateway answers; IndexedDB works.
RaceInit ==
  /\ \E url0 \in {"f1", "f2"} :
       Is(ModuleState(Collection, FilterMatches, url0, TRUE, 0))
  /\ cmpArgs = << >>
  /\ cmpResult = << >>

RaceOpen ==
  /\ ~ModalOpen
  /\ RaceStep(openRankingModal(StateNow))

RaceClose ==
  /\ ModalOpen
  /\ RaceStep({closeRankingModal(StateNow)})

RaceNavigate ==
  /\ ~ModalOpen
  /\ \E url0 \in {"f1", "f2"} : RaceStep({[StateNow EXCEPT !.url = url0]})

RaceLoadResumes ==
  \E load \in BagToSet(loads) : RaceStep(ResumeLoad(StateNow, load))

RaceNext ==
  \/ RaceOpen
  \/ RaceClose
  \/ RaceNavigate
  \/ RaceLoadResumes

SpecRace == RaceInit /\ [][RaceNext]_vars

(***************************************************************************)
(* SpecRating: handleComparison on bounded inputs                          *)
(***************************************************************************)

\* The two scenes of the comparison.
CmpScenes == [winner |-> 1, loser |-> 2]
WinnerScene == CmpScenes.winner
LoserScene == CmpScenes.loser

\* Ratings fed to the comparison: unrated, both ends of [1,100] and values
\* whose differences spread over -99..99.
RatingSamples == {NULL, 1, 2, 3, 10, 25, 40, 49, 50, 51, 60, 75, 80, 95, 98, 99, 100}

\* Play counts on both sides of every K-factor threshold, and absent.
PlayCountSamples == {NoPlayCount, 0, 2, 3, 7, 8, 14, 15, 20}

\* Ranks of the loser: unknown, #1, lower.
RankSamples == {NULL, 1, 2}

CmpArgsSet ==
  [winnerId : {WinnerScene}, loserId : {LoserScene},
   winnerCurrentRating : RatingSamples, loserCurrentRating : RatingSamples,
   winnerPlayCount : PlayCountSamples, loserPlayCount : PlayCountSamples,
   loserRank : RankSamples]

CurrentContext ==
  ModeContext(currentMode, gauntletChampion.id, gauntletFalling, gauntletFallingScene.id)

\* The server lists the two scenes; their ratings there play no part.
RatingServer == [i \in {WinnerScene, LoserScene} |-> [rating100 |-> NULL, play_count |-> NoPlayCount]]

\* A handle on a scene as the gauntlet state holds it.
Held(id) == IF id = NULL THEN NoScene ELSE Scene(id, NULL, NoPlayCount)

RatingInit ==
  /\ \E mode \in Modes, champion, fallingScene \in {NULL, WinnerScene, LoserScene} :
       /\ fallingScene # NULL => fallingScene # champion
       /\ mode = "swiss" => champion = NULL /\ fallingScene = NULL
       /\ Is([ModuleState(RatingServer, << >>, "", TRUE, 0) EXCEPT
                !.currentMode = mode,
                !.gauntletChampion = Held(champion),
                !.gauntletFallingScene = Held(fallingScene),
                !.gauntletFalling = (fallingScene # NULL),
                !.view = [modal |-> "open", area |-> "pair"]])
  /\ cmpArgs \in CmpArgsSet
  /\ cmpResult = << >>

\* handleComparison(winnerId, loserId, ...) is called.
Compare ==
  /\ cmpResult = << >>
  /\ cmpResult' = << handleComparison(CurrentContext, cmpArgs.winnerId, cmpArgs.loserId,
                                      cmpArgs.winnerCurrentRating, cmpArgs.loserCurrentRating,
                                      cmpArgs.winnerPlayCount, cmpArgs.loserPlayCount,
                                      cmpArgs.loserRank) >>
  /\ UNCHANGED << progVars, cmpArgs >>

RatingNext == Compare

SpecRating == RatingInit /\ [][RatingNext]_vars

(***************************************************************************)
(* SpecWrites: Swiss pairs are judged and the rating writes fail or not    *)
(***************************************************************************)

\* Choices the user makes while the Gateway may refuse the mutations.
MaxWriteDecisions == 1

\* A Swiss session with or without a filter; each sceneUpdate of a choice
\* is applied by the Gateway or fails.
WritesInit ==
  /\ \E url0 \in {"", "f1"} :
       Is([ModuleState(Collection, FilterMatches, url0, TRUE, 0) EXCEPT
             !.decisions = MaxWriteDecisions])
  /\ cmpArgs = << >>
  /\ cmpResult = << >>

WritesNext ==
  \/ OpenRankingModal
  \/ ChooseScene
  \/ TimerFires
  \/ LoadResumes
  \/ WriteSucceeds
  \/ WriteFails

SpecWrites == WritesInit /\ [][WritesNext]_vars

(***************************************************************************)
(* SpecSmall: a collection too small for a pair                            *)
(***************************************************************************)

\* Most scenes a collection too small for a pair has.
MaxSmallScenes == 1

\* The Gateway holds no scene or one scene; the session starts in any mode,
\* with or without a filter, and IndexedDB works or not.
SmallInit ==
  /\ \E n \in 0..MaxSmallScenes, mode \in Modes, url0 \in {"", "f1"}, idbOk0 \in BOOLEAN :
       Is([ModuleState([i \in 1..n |-> Collection[i]], FilterMatches, url0, idbOk0, 0)
             EXCEPT !.localStorage = Some(SavedRun(mode, url0))])
  /\ cmpArgs = << >>
  /\ cmpResult = << >>

SmallNext ==
  \/ OpenRankingModal
  \/ CloseRankingModal
  \/ SkipPair
  \/ ModeToggle
  \/ RefreshCacheClick
  \/ RetryClick
  \/ LoadResumes
  \/ Tick

SpecSmall == SmallInit /\ [][SmallNext]_vars

(***************************************************************************)
(* SpecClimb: runs over a collection of four rated scenes                  *)
(***************************************************************************)

\* Scenes of the collection of the runs, and choices made in a run.
NumClimbScenes == 4
MaxClimbDecisions == 3

\* Scenes rated 70, 60, 50, ..., established ones and new ones in turn.
ClimbCollection ==
  [i \in 1..NumClimbScenes |->
     [rating100 |-> 80 - 10 * i, play_count |-> IF i % 2 = 1 THEN 20 ELSE 0]]

\* A run in Gauntlet or Champion mode without a filter: the challenger is
\* any scene of the collection.
ClimbInit ==
  /\ \E mode \in {"gauntlet", "champion"} :
       Is([ModuleState(ClimbCollection, FilterMatches, "", TRUE, 0) EXCEPT
             !.localStorage = Some(SavedRun(mode, "")),
             !.decisions = MaxClimbDecisions])
  /\ cmpArgs = << >>
  /\ cmpResult = << >>

ClimbNext ==
  \/ OpenRankingModal
  \/ ChooseScene
  \/ TimerFires
  \/ LoadResumes
  \/ WriteSucceeds

SpecClimb == ClimbInit /\ [][ClimbNext]_vars

(***************************************************************************)
(* SpecFinish: a Gauntlet run that the user plays to its end               *)
(***************************************************************************)

\* Choices the user may make in the run: one more than 2 * (NumClimbScenes - 1).
MaxFinishDecisions == 7

\* Scenes with equal ratings, and unrated ones at the end of the listing.
TiedCollection ==
  [i \in 1..NumClimbScenes |->
     IF i <= 2 THEN [rating100 |-> 50, play_count |-> 20]
     ELSE [rating100 |-> NULL, play_count |-> NoPlayCount]]

\* One run in Gauntlet mode without a filter, over the collection of SpecClimb
\* or over the one with ties and unrated scenes.
FinishInit ==
  /\ \E collection \in {ClimbCollection, TiedCollection} :
       Is([ModuleState(collection, FilterMatches, "", TRUE, 0) EXCEPT
             !.localStorage = Some(SavedRun("gauntlet", "")),
             !.decisions = MaxFinishDecisions])
  /\ cmpArgs = << >>
  /\ cmpResult = << >>

FinishNext ==
  \/ OpenRankingModal
  \/ ChooseScene
  \/ TimerFires
  \/ LoadResumes
  \/ WriteSucceeds

\* Some step of FinishNext can be taken: the modal can be opened, a load, a
\* timer or a write is pending, or a pair is displayed and a choice would be
\* accepted.
CanMove ==
  \/ ~ModalOpen
  \/ loads # EmptyBag
  \/ timers # EmptyBag
  \/ pendingWrites # EmptyBag
  \/ /\ view.area = "pair"
     /\ ~disableChoice
     /\ currentPair.left # NoScene /\ currentPair.right # NoScene
     /\ decisions > 0

\* The user opens the modal and decides every pair that is presented, timers
\* fire and the Gateway answers: a step that can be taken is taken.  This is
\* WF_vars(FinishNext) with CanMove for ENABLED <<FinishNext>>_vars.
FinishFairness == ([]<>(~CanMove)) \/ ([]<><<FinishNext>>_vars)

SpecFinish == FinishInit /\ [][FinishNext]_vars /\ FinishFairness

(***************************************************************************)
(* SpecReload: pairs are judged and the page is loaded again               *)
(***************************************************************************)

\* Choices the user makes across the page loads.
MaxReloadDecisions == 2

\* A session in any mode under one URL without a filter.
ReloadInit ==
  /\ \E mode \in Modes :
       Is([ModuleState(Collection, FilterMatches, "", TRUE, 0) EXCEPT
             !.localStorage = Some(SavedRun(mode, "")),
             !.decisions = MaxReloadDecisions])
  /\ cmpArgs = << >>
  /\ cmpResult = << >>

ReloadNext ==
  \/ OpenRankingModal
  \/ ChooseScene
  \/ TimerFires
  \/ LoadResumes
  \/ WriteSucceeds
  \/ PageReload

SpecReload == ReloadInit /\ [][ReloadNext]_vars

(***************************************************************************)
(* SpecSlow: pairs are judged while the Gateway answers slowly             *)
(***************************************************************************)

\* Suspended loads and choices of a session with a slow Gateway.
MaxSlowLoads == 2
MaxSlowDecisions == 2

SlowStep(states) ==
  /\ \E st \in states :
       /\ st.decisions >= 0
       /\ BagCardinality(st.loads) <= MaxSlowLoads
       /\ BagCardinality(st.timers) <= MaxTimers
       /\ BagCardinality(st.pendingWrites) <= MaxWrites
       /\ st # StateNow
       /\ Becomes(st)
  /\ UNCHANGED cmpVars

\* A session under one URL without a filter, in any mode: the user clears
\* the cache and judges pairs, and a listing of the Gateway can take longer
\* than the timer of a choice.
SlowInit ==
  /\ \E mode \in Modes :
       Is([ModuleState(Collection, FilterMatches, "", TRUE, 0) EXCEPT
             !.localStorage = Some(SavedRun(mode, "")),
             !.decisions = MaxSlowDecisions])
  /\ cmpArgs = << >>
  /\ cmpResult = << >>

SlowOpen ==
  /\ ~ModalOpen
  /\ SlowStep(openRankingModal(StateNow))

SlowChooseScene ==
  /\ ModalOpen /\ view.area = "pair"
  /\ \E side \in {"left", "right"} : SlowStep(handleChooseScene(StateNow, side))

SlowSkip ==
  /\ ModalOpen
  /\ SlowStep(Skip(StateNow))

SlowRefreshCache ==
  /\ ModalOpen
  /\ SlowStep(RefreshCache(StateNow))

SlowTimerFires ==
  /\ pendingWrites = EmptyBag
  /\ \E timer \in BagToSet(timers) : SlowStep(RunTimer(StateNow, timer))

SlowLoadResumes ==
  \E load \in BagToSet(loads) : SlowStep(ResumeLoad(StateNow, load))

SlowWriteSucceeds ==
  \E w \in BagToSet(pendingWrites) : SlowStep({WriteDone(StateNow, w)})

SlowNext ==
  \/ SlowOpen
  \/ SlowChooseScene
  \/ SlowSkip
  \/ SlowRefreshCache
  \/ SlowTimerFires
  \/ SlowLoadResumes
  \/ SlowWriteSucceeds

SpecSlow == SlowInit /\ [][SlowNext]_vars

(***************************************************************************)
(* SpecDrain: every scene of the collection is judged                      *)
(***************************************************************************)

\* Choices of a session without a filter: enough to judge every scene.
MaxDrainDecisions == 2

\* A Swiss session without a filter.
DrainInit ==
  /\ Is([ModuleState(Collection, FilterMatches, "", TRUE, 0) EXCEPT
          !.decisions = MaxDrainDecisions])
  /\ cmpArgs = << >>
  /\ cmpResult = << >>

\* The user judges pairs and clicks the mode buttons.
DrainNext ==
  \/ OpenRankingModal
  \/ ChooseScene
  \/ ModeToggle
  \/ TimerFires
  \/ LoadResumes
  \/ WriteSucceeds

SpecDrain == DrainInit /\ [][DrainNext]_vars

(***************************************************************************)
(* SpecReposition: updateSceneInCache on bounded inputs                    *)
(***************************************************************************)

\* Ratings of the scenes held in memory, and ratings written.
HeldRatings == {NULL, 40, 60}
WrittenRatings == {1, 40, 50, 60, 100}

\* Longest filtered list held in memory.
MaxFilteredLen == 2

\* The scene objects the lists in memory are made of.
HeldScenes == {Scene(i, r, NoPlayCount) : i \in SceneIds, r \in HeldRatings}

\* array.sort by rating DESC holds: no scene is rated above an earlier one.
SortedDesc(arr) == \A i, j \in 1..Len(arr) : i < j => arr[i].rating100 >= arr[j].rating100

\* The lists of at most n scenes a listing of the Gateway can have left in
\* memory: distinct scenes, sorted by rating, equal ratings in any order.
HeldListings(n) ==
  {arr \in UNION {[1..k -> HeldScenes] : k \in 0..n} :
     /\ \A i, j \in 1..Len(arr) : i # j => arr[i].id # arr[j].id
     /\ SortedDesc(arr)}

\* The Gateway is about to answer a sceneUpdate of updateSceneRating, with
\* both buckets in memory (the filtered one may be absent).
RepositionInit ==
  /\ cmpArgs \in [allScenes : HeldListings(NumScenes),
                  filteredScenes : {None} \cup {Some(f) : f \in HeldListings(MaxFilteredLen)},
                  sceneId : SceneIds, newRating : WrittenRatings]
  /\ Is(updateSceneRating(
          [ModuleState(Collection, FilterMatches, "f1", TRUE, 0) EXCEPT
             !.memoryCache.allScenes = Some(cmpArgs.allScenes),
             !.memoryCache.filteredScenes = cmpArgs.filteredScenes,
             !.memoryCache.filterKey = buildFilterKey("f1")],
          cmpArgs.sceneId, cmpArgs.newRating))
  /\ cmpResult = << >>

RepositionNext == WriteSucceeds

SpecReposition == RepositionInit /\ [][RepositionNext]_vars

(***************************************************************************)
(* CLAIMS                                                                  *)
(***************************************************************************)

\* The comparison under study has been computed.
HasCompared == cmpResult # << >>
CmpWinnerRating == OrElse(cmpArgs.winnerCurrentRating, 50)
CmpLoserRating == OrElse(cmpArgs.loserCurrentRating, 50)

\* C7: for every pair of ratings in [1,100] or unrated (counted as the default
\* 50), every pair of play counts, every mode and mode context, the new winner
\* rating is not below the winner's old rating, the new loser rating is not
\* above the loser's old rating, and both lie in [1,100].
C7_ScoreMonotonicClamped ==
  HasCompared =>
    /\ cmpResult[1].newWinnerRating >= CmpWinnerRating
    /\ cmpResult[1].newLoserRating <= CmpLoserRating
    /\ cmpResult[1].newWinnerRating \in 1..100
    /\ cmpResult[1].newLoserRating \in 1..100

\* A winner at 99 whose gain of more than 1 is cut at 100, against a loser at
\* 100 who goes down.
C7_Witness ==
  /\ HasCompared
  /\ cmpArgs.winnerCurrentRating = 99 /\ cmpArgs.loserCurrentRating = 100
  /\ cmpResult[1].winnerGain > 1 /\ cmpResult[1].loserLoss >= 1
  /\ cmpResult[1].newWinnerRating = 100 /\ cmpResult[1].newLoserRating < 100

CmpWinnerActive ==
  \/ gauntletChampion # NoScene /\ cmpArgs.winnerId = gauntletChampion.id
  \/ gauntletFalling /\ gauntletFallingScene # NoScene /\ cmpArgs.winnerId = gauntletFallingScene.id
CmpLoserActive ==
  \/ gauntletChampion # NoScene /\ cmpArgs.loserId = gauntletChampion.id
  \/ gauntletFalling /\ gauntletFallingScene # NoScene /\ cmpArgs.loserId = gauntletFallingScene.id

C9_K(playCount) ==
  CASE playCount = NoPlayCount -> 12
    [] playCount # NoPlayCount /\ playCount < 3 -> 12
    [] playCount >= 3 /\ playCount < 8 -> 8
    [] playCount >= 8 /\ playCount < 15 -> 6
    [] OTHER -> 4

\* C9: in Swiss mode both sides update with the experience-dependent K (12 below
\* 3 plays, 8 below 8, 6 below 15, else 4; an absent play count is 0):
\* winnerDelta = max(1, round(K(winnerPlays) * (1 - expectedWinner))) and
\* loserDelta = max(1, round(K(loserPlays) * expectedWinner)), applied to the
\* ratings; two scenes rated 50 with 0 plays move by 6 each, to 56 and 44.
C9_SwissDeltas ==
  (HasCompared /\ currentMode = "swiss") =>
    LET d == CmpLoserRating - CmpWinnerRating
        r == cmpResult[1]
    IN  /\ r.winnerGain = Max(1, RoundKUnexpected(C9_K(cmpArgs.winnerPlayCount), d))
        /\ r.loserLoss = Max(1, RoundKExpected(C9_K(cmpArgs.loserPlayCount), d))
        /\ r.newWinnerRating = Min(100, CmpWinnerRating + r.winnerGain)
        /\ r.newLoserRating = Max(1, CmpLoserRating - r.loserLoss)
        /\ (d = 0 /\ C9_K(cmpArgs.winnerPlayCount) = 12) => r.winnerGain = 6
        /\ (d = 0 /\ C9_K(cmpArgs.loserPlayCount) = 12) => r.loserLoss = 6
        /\ ( /\ cmpArgs.winnerCurrentRating = 50 /\ cmpArgs.loserCurrentRating = 50
             /\ cmpArgs.winnerPlayCount = 0 /\ cmpArgs.loserPlayCount = 0 ) =>
             /\ r.newWinnerRating = 56 /\ r.newLoserRating = 44
             /\ r.winnerChange = 6 /\ r.loserChange = 0 - 6

\* The scenario of C9: two scenes rated 50 with no plays compared in Swiss mode.
C9_Witness ==
  /\ HasCompared /\ currentMode = "swiss"
  /\ cmpArgs.winnerCurrentRating = 50 /\ cmpArgs.loserCurrentRating = 50
  /\ cmpArgs.winnerPlayCount = 0 /\ cmpArgs.loserPlayCount = 0
  /\ cmpResult[1].newWinnerRating = 56 /\ cmpResult[1].newLoserRating = 44


\* C1: a call of getFilteredScenesCached under a filter key never returns a
\* list fetched under another key, whatever fetches, background refreshes and
\* invalidations came before: the list in memory and the entry of IndexedDB
\* answer only when the key stored with them equals the key asked for (memory
\* first), and otherwise the list is fetched from the Gateway under the key
\* asked for.  Each tier holds its list under the key it was fetched under.
C1_NoCrossFilterLeak ==
  /\ hist.filtered.tier # "none" =>
       /\ hist.filtered.origin = hist.filtered.key
       /\ hist.filtered.tier = "memory" <=> hist.filtered.memory = hist.filtered.key
       /\ hist.filtered.tier = "idb" <=>
            /\ hist.filtered.memory # hist.filtered.key
            /\ hist.filtered.idb = hist.filtered.key
       /\ hist.filtered.tier = "network" <=>
            /\ hist.filtered.memory # hist.filtered.key
            /\ hist.filtered.idb # hist.filtered.key
  /\ IsSome(memoryCache.filteredScenes) => memoryCache.origin = memoryCache.filterKey
  /\ IsSome(idb.filtered) => Get(idb.filtered).origin = Get(idb.filtered).filterKey

\* A request under one key found memory holding the list of another key and
\* fetched its own list.
C1_Witness ==
  /\ hist.filtered.tier = "network"
  /\ hist.filtered.memory \notin {NullKey, hist.filtered.key}
  /\ hist.filtered.key # "{}"

\* C2: with a fixed filter key and a fixed available set of n scenes, the calls
\* of getNextFilteredScene since the shuffle that began the cycle have served
\* pairwise different available scenes, so n of them served each available
\* scene exactly once.  (A cycle counts as fixed until a scene is removed from
\* the pool or the mode toggle resets the cursor.)
C2_NoRepeatPerCycle ==
  hist.cycleFixed =>
    /\ \A i, j \in 1..Len(hist.cyclePicks) :
         i # j => hist.cyclePicks[i] # hist.cyclePicks[j]
    /\ Range(hist.cyclePicks) \subseteq hist.cycleAvail
    /\ Len(hist.cyclePicks) <= Cardinality(hist.cycleAvail)
    /\ Len(hist.cyclePicks) = Cardinality(hist.cycleAvail) =>
         Range(hist.cyclePicks) = hist.cycleAvail

\* A full cycle of all the scenes of the collection has been served.
C2_Witness ==
  /\ hist.cycleFixed
  /\ Cardinality(hist.cycleAvail) = NumScenes
  /\ Len(hist.cyclePicks) = NumScenes

\* C3: whenever more than one scene is available, the scene a call of
\* getNextFilteredScene serves is not the scene the previous call served,
\* whatever state the cursor of the pool is in.
C3_NoBackToBackRepeat == ~hist.repeated

\* C4: in Swiss mode both scenes of a judged pair have left the pool: they are
\* in removedSceneIds and not in the shuffled queue, and no later call of the
\* pool in the same cycle (until the pool is reset or the queue is shuffled
\* again) serves them.
C4_JudgedLeaveThePool ==
  /\ ~hist.judgedPicked
  /\ shuffleFilterKey # NullKey =>
       /\ hist.judged \subseteq removedSceneIds
       /\ \A i \in 1..Len(shuffledFilteredScenes) :
            shuffledFilteredScenes[i] \notin hist.judged

\* After a Swiss decision the pool has served a scene in the same cycle.
C4_Witness ==
  /\ hist.judged # {}
  /\ hist.lastPick # NULL
  /\ hist.lastPick \notin hist.judged
  /\ hist.cycleAvail = {}

GauntletNoChampion ==
  gauntletChampion = NoScene /\ ~gauntletFalling /\ gauntletFallingScene = NoScene

GauntletClimbing ==
  gauntletChampion # NoScene /\ ~gauntletFalling /\ gauntletFallingScene = NoScene

GauntletFalling == gauntletFalling /\ gauntletFallingScene # NoScene

\* C5: in Gauntlet mode exactly one of NoChampion, Climbing and Falling holds
\* in every reachable state; the falling flag is set if and only if a falling
\* scene is recorded.
C5_ExactlyOneSubState ==
  currentMode = "gauntlet" =>
    /\ gauntletFalling <=> gauntletFallingScene # NoScene
    /\ Cardinality({b \in {<<1, GauntletNoChampion>>, <<2, GauntletClimbing>>,
                           <<3, GauntletFalling>>} : b[2]}) = 1
    /\ SubState(StateNow) # "Broken"

\* A champion has lost in Gauntlet mode and is falling.
C5_Witness ==
  currentMode = "gauntlet" /\ GauntletFalling /\ view.area = "pair"

\* C6: in Gauntlet mode a victory is produced only by a step that began in the
\* sub-state Climbing, a placement only by a step that began in Falling.
C6_ResultsFromTheirSubState ==
  hist.fetch.mode \in {"gauntlet", "none"} =>
    /\ hist.result = "victory" => hist.before = "Climbing"
    /\ hist.result = "placement" => hist.before = "Falling"

\* A falling scene has been placed in Gauntlet mode.
C6_Witness ==
  /\ currentMode = "gauntlet"
  /\ hist.result = "placement"
  /\ view.area = "placement"

\* C10: a fetch in which getNextFilteredScene returned null has cleared the
\* filtered cache and called the pool exactly once more; the fetch ends in an
\* error only if that second call returned null too.
C10_EmptyIsRetriedOnce ==
  hist.fetch.empties >= 1 =>
    /\ hist.fetch.invalidated
    /\ hist.fetch.empties + hist.fetch.retries = 2
    /\ hist.fetch.outcome = "error" => hist.fetch.empties = 2


\* The opponent selection of fetchGauntletPair for a falling scene: what is
\* returned (pair or placement, scenes, ranks).
FallingSelection(st, allScenes) ==
  {<< r.kind, r.scenes, r.ranks >> : r \in FallingPair(st, allScenes)}

\* The same selection by the ids of the scenes.
FallingSelectionIds(st, allScenes) ==
  {<< r.kind, IdsOf(r.scenes), r.ranks >> : r \in FallingPair(st, allScenes)}

\* C11: in the Falling sub-state of Gauntlet mode, saveState followed by
\* loadState restores the mode, the falling flag, the falling scene and the
\* defeated list, and against the same list of all scenes the next opponent
\* selected is the one selected without the save and load.  The state that
\* localStorage holds at that moment, written by an earlier saveState, names
\* the same falling scene and defeated list and selects the same opponent.
C11_FallingRoundTrip ==
  (currentMode = "gauntlet" /\ InFallingMode(StateNow)
     /\ IsSome(memoryCache.allScenes)) =>
    /\ loadState(saveState(StateNow)).hasState
    /\ \A r \in {loadState(saveState(StateNow)).st} :
         /\ r.currentMode = currentMode
         /\ r.gauntletFalling = gauntletFalling
         /\ r.gauntletFallingScene = gauntletFallingScene
         /\ r.gauntletDefeated = gauntletDefeated
         /\ FallingSelection(r, Get(memoryCache.allScenes))
              = FallingSelection(StateNow, Get(memoryCache.allScenes))
    /\ \A r \in {loadState(StateNow).st} :
         /\ r.currentMode = currentMode
         /\ r.gauntletFalling = gauntletFalling
         /\ r.gauntletFallingScene # NoScene
         /\ r.gauntletFallingScene.id = gauntletFallingScene.id
         /\ r.gauntletDefeated = gauntletDefeated
         /\ FallingSelectionIds(r, Get(memoryCache.allScenes))
              = FallingSelectionIds(StateNow, Get(memoryCache.allScenes))

\* A falling scene that has already lost to an opponent below it: the
\* defeated list decides who comes next.
C11_Witness ==
  /\ currentMode = "gauntlet" /\ InFallingMode(StateNow)
  /\ IsSome(memoryCache.allScenes)
  /\ Len(gauntletDefeated) >= 2
  /\ FallingSelection(StateNow, Get(memoryCache.allScenes))
       # FallingSelection([StateNow EXCEPT !.gauntletDefeated = << >>],
                          Get(memoryCache.allScenes))

\* C12: a call of getAllScenesCached goes to the network, blocking, only when
\* neither tier holds an entry of the bucket: an entry older than the max age
\* is served from the tier that holds it.
C12_StaleIsServed ==
  hist.all.tier = "network" => ~hist.all.stored

\* C13: at most one background refresh of a bucket is in flight at any time,
\* however many calls of the getters find the same stale list.
C13_OneRefreshInFlight ==
  \A r1 \in BagToSet(refreshes), r2 \in BagToSet(refreshes) :
     r1.bucket = r2.bucket => r1 = r2 /\ CopiesIn(r1, refreshes) = 1

\* C14: a background refresh of the filtered bucket commits its list only if,
\* at its completion, the slot still has the key the refresh was started for
\* and the bucket was not invalidated since the refresh started.
C14_RefreshCommitsOnlyIfCurrent ==
  hist.refresh.committed =>
    hist.refresh.slot = hist.refresh.key /\ ~hist.refresh.invalidated

\* C15: when two fetches of the filtered bucket race, a fetch that completes
\* writes the slot only if its key is the key of the active filter.
C15_InactiveWriterIsDropped ==
  hist.slot.raced => hist.slot.key = hist.slot.active

\* C16: the first call of getNextFilteredScene under a filter key other than
\* the key of the call before it filters the list by an empty removedSceneIds.
C16_RemovedClearedOnKeyChange ==
  (hist.draw.prev # NullKey /\ hist.draw.key # hist.draw.prev) =>
    hist.draw.removed = {}

\* C17: once a background refresh that was started before a scene was removed
\* from the pool has committed a list that contains the scene, no call of
\* getNextFilteredScene returns that scene (until the pool is reset).
C17_RefreshDoesNotReintroduce ==
  ~hist.race.returned

C17_Witness ==
  /\ hist.race.drawn
  /\ hist.race.back \subseteq removedSceneIds
  /\ IsSome(memoryCache.filteredScenes)
  /\ \E i \in 1..Len(Get(memoryCache.filteredScenes)) :
       Get(memoryCache.filteredScenes)[i].id \in hist.race.back
  /\ shuffleIndex = 1 /\ hist.cyclePicks = << lastShownSceneId >>

\* C18: the cursor of the pool stays within 0..length of the shuffled queue,
\* whatever calls of the pool, removals, mode switches and resets came before,
\* and every call of the pool reads an element within the queue.
C18_CursorInRange ==
  /\ 0 <= shuffleIndex
  /\ shuffleIndex <= Len(shuffledFilteredScenes)
  /\ hist.draw.inRange

C18_Witness ==
  /\ removedSceneIds # {}
  /\ Len(shuffledFilteredScenes) >= 1
  /\ shuffleIndex = Len(shuffledFilteredScenes)
  /\ hist.draw.key # NullKey
  /\ lastShownSceneId = shuffledFilteredScenes[shuffleIndex]

\* C20: when clearSceneCache has returned, memory holds neither the list of
\* all scenes nor the filtered list, whether or not IndexedDB could be cleared.
C20_MemoryEmptyAfterClearAll ==
  hist.clearAll.done => ~hist.clearAll.all /\ ~hist.clearAll.filtered

\* C19: a failure of IndexedDB (open, get, put, delete or clear) during
\* getAllScenesCached, getFilteredScenesCached, clearFilteredCache or
\* clearSceneCache is absorbed: the promise of the call is not rejected.
C19_StoreFailureIsAbsorbed ==
  hist.store.failed => ~hist.store.rejected

\* The update under study has been applied to the cache in memory.
Repositioned == "sceneId" \in DOMAIN cmpArgs /\ pendingWrites = EmptyBag

\* The list without the scene of the update, in its order.
Others(arr) == SelectSeq(arr, LAMBDA s : s.id # cmpArgs.sceneId)

\* The scene of the update is in the list.
Listed(arr) == cmpArgs.sceneId \in IdSet(arr)

\* The scenes of the rest rated at or above the written rating.
NotLower(rest) == {i \in 1..Len(rest) : rest[i].rating100 >= cmpArgs.newRating}

\* C21: applied to an all-items array sorted by rating descending, the update
\* leaves it sorted by rating descending with the same items: the scene is taken
\* out and put back, with the new rating, at the first position whose rating is
\* less than the new rating (at the end if there is none), and the others keep
\* their order; a list that lacks the scene is left as it is.  In the filtered
\* bucket the scene's rating is patched in place and the order is unchanged.
C21_RepositionKeepsSorted ==
  Repositioned =>
    /\ IsSome(memoryCache.allScenes)
    /\ SortedDesc(Get(memoryCache.allScenes))
    /\ IdSet(Get(memoryCache.allScenes)) = IdSet(cmpArgs.allScenes)
    /\ Len(Get(memoryCache.allScenes)) = Len(cmpArgs.allScenes)
    /\ Others(Get(memoryCache.allScenes)) = Others(cmpArgs.allScenes)
    /\ ~Listed(cmpArgs.allScenes) => Get(memoryCache.allScenes) = cmpArgs.allScenes
    /\ Listed(cmpArgs.allScenes) =>
         /\ FindIndex(Get(memoryCache.allScenes), cmpArgs.sceneId)
              = Cardinality(NotLower(Others(cmpArgs.allScenes)))
         /\ Get(memoryCache.allScenes)[FindIndex(Get(memoryCache.allScenes), cmpArgs.sceneId) + 1].rating100
              = cmpArgs.newRating
    /\ IsSome(memoryCache.filteredScenes) = IsSome(cmpArgs.filteredScenes)
    /\ IsSome(cmpArgs.filteredScenes) =>
         /\ IdsOf(Get(memoryCache.filteredScenes)) = IdsOf(Get(cmpArgs.filteredScenes))
         /\ \A i \in 1..Len(Get(cmpArgs.filteredScenes)) :
              Get(memoryCache.filteredScenes)[i] =
                IF Get(cmpArgs.filteredScenes)[i].id = cmpArgs.sceneId
                THEN [Get(cmpArgs.filteredScenes)[i] EXCEPT !.rating100 = cmpArgs.newRating]
                ELSE Get(cmpArgs.filteredScenes)[i]

\* The last scene of a list of three moved up to the second place, behind a
\* scene of the rating it now has, and was patched in the filtered list.
C21_Witness ==
  /\ Repositioned
  /\ Len(cmpArgs.allScenes) = 3
  /\ FindIndex(cmpArgs.allScenes, cmpArgs.sceneId) = 2
  /\ FindIndex(Get(memoryCache.allScenes), cmpArgs.sceneId) = 1
  /\ Get(memoryCache.allScenes)[1].rating100 = cmpArgs.newRating
  /\ Get(memoryCache.allScenes)[2].rating100 = cmpArgs.newRating
  /\ IsSome(cmpArgs.filteredScenes)
  /\ Listed(Get(cmpArgs.filteredScenes))
  /\ Get(memoryCache.filteredScenes) # Get(cmpArgs.filteredScenes)

\* The rating the list holds for a scene, as a set (empty when not listed).
CachedRatings(list, id) ==
  IF IsSome(list) THEN {Get(list)[i].rating100 : i \in {j \in 1..Len(Get(list)) : Get(list)[j].id = id}}
  ELSE {}

\* C22: rating updates are optimistic: when the sceneUpdate of a decision
\* fails, the rating held in memory for the changed scene is the newly computed
\* rating all the same; the failure never leaves the old rating in memory.
C22_FailedWriteKeepsNewRating ==
  hist.write.failed =>
    /\ CachedRatings(memoryCache.allScenes, hist.write.id) \subseteq {hist.write.rating100}
    /\ CachedRatings(memoryCache.filteredScenes, hist.write.id) \subseteq {hist.write.rating100}

\* C23: every switch to another mode resets the context of the run (no
\* champion, streak 0, nobody defeated, not falling, no falling scene), in the
\* program and in the saved session, and sets the cursor of the pool to 0 before
\* the pair of the new mode is loaded, whatever sub-state the run was in.
C23_ModeSwitchResets ==
  hist.toggle.from # "none" =>
    /\ gauntletChampion = NoScene /\ gauntletWins = 0 /\ gauntletDefeated = << >>
    /\ ~gauntletFalling /\ gauntletFallingScene = NoScene
    /\ hist.toggle.cursor = 0
    /\ IsSome(localStorage)
    /\ Get(localStorage).gauntletChampion = NoScene /\ Get(localStorage).gauntletWins = 0
    /\ Get(localStorage).gauntletDefeated = << >> /\ ~Get(localStorage).gauntletFalling
    /\ Get(localStorage).gauntletFallingScene = NoScene

\* The mode was switched while a dethroned champion was falling and the pool
\* had served scenes.
C23_Witness ==
  /\ hist.toggle.from = "Falling" /\ hist.toggle.moved /\ hist.toggle.cursor = 0
  /\ currentMode = "champion" /\ gauntletChampion = NoScene /\ ~gauntletFalling

\* C24: in every mode, when the full collection has fewer than 2 scenes, the
\* fetch of the pair falls back to an unranked random pair, both ranks
\* unknown, instead of failing with an error.
C24_SmallCollectionFallsBack ==
  (Cardinality(DOMAIN server) < 2 /\ hist.fetch.outcome # "none") =>
    /\ hist.fetch.outcome = "pair"
    /\ view.area = "pair"
    /\ currentRanks = [left |-> NULL, right |-> NULL]

\* C25: Champion mode has no Falling sub-state: in Champion mode the falling
\* flag is false in every state, and a choice against the champion makes the
\* winner the champion at once, with a streak of 1 and a defeated list that
\* starts afresh with the scene just beaten; the dethroned scene does not
\* become the falling scene and its placement is not awaited.
C25_ChampionModeNeverFalls ==
  /\ currentMode = "champion" => ~gauntletFalling
  /\ hist.choice.lost =>
       /\ currentMode = "champion"
       /\ gauntletChampion.id = hist.choice.winner
       /\ gauntletWins = 1
       /\ gauntletDefeated = << hist.choice.loser >>
       /\ gauntletFallingScene = NoScene
       /\ SubState(StateNow) = "Climbing"
       /\ \A t \in BagToSet(timers) : t.kind = "load"

\* A champion was beaten in Champion mode; the saved session holds the winner.
C25_Witness ==
  /\ hist.choice.lost /\ currentMode = "champion"
  /\ gauntletWins = 1 /\ gauntletChampion.id = hist.choice.winner
  /\ IsSome(localStorage) /\ Get(localStorage).gauntletChampion.id = hist.choice.winner
  /\ hist.choice.loser \in IdSet(<< currentPair.left, currentPair.right >>)

\* The list of a bucket is in memory and in IndexedDB, where it carries the
\* time it was fetched at, and no refresh of the bucket is under way.
Settled(bucket, list) ==
  /\ IsSome(list) /\ idbOk /\ IsSome(idb[bucket])
  /\ Get(idb[bucket]).scenes = Get(list)
  /\ \A r \in BagToSet(refreshes) : r.bucket # bucket

\* C26: each bucket has its own freshness: fetching, refreshing or promoting
\* one bucket does not change whether the other is considered stale, so a
\* bucket older than the max age is found stale by the test its next read from
\* memory makes.
C26_BucketsAgeApart ==
  /\ (Settled("all", memoryCache.allScenes) /\ IsStale(StateNow, Get(idb.all).timestamp))
       => IsStale(StateNow, memoryCache.timestamp)
  /\ (Settled("filtered", memoryCache.filteredScenes)
      /\ Get(idb.filtered).filterKey = memoryCache.filterKey
      /\ IsStale(StateNow, Get(idb.filtered).timestamp))
       => IsStale(StateNow, memoryCache.timestamp)

\* C27: a background refresh of the all-items bucket overwrites the two tiers
\* only if nothing was invalidated while it was in flight: a refresh that
\* completes after the whole cache was cleared does not fill either tier with
\* its result.
C27_RefreshAllCommitsOnlyIfValid ==
  hist.refreshAll.committed => ~hist.refreshAll.invalidated

\* A pair of the run has just been rendered and awaits the choice.
PairAwaitsChoice ==
  /\ view.area = "pair" /\ ~disableChoice /\ hist.fetch.outcome = "pair"
  /\ timers = EmptyBag /\ pendingWrites = EmptyBag /\ loads = EmptyBag
  /\ currentMode \in {"gauntlet", "champion"}
  /\ IsSome(memoryCache.allScenes)

\* The pair shown is the champion, climbing, against an opponent.
ClimbingPairShown ==
  /\ PairAwaitsChoice
  /\ SubState(StateNow) = "Climbing"
  /\ currentPair.left.id = gauntletChampion.id

\* The 0-based positions, in the list of all scenes, of the scenes a climbing
\* champion may meet: not the champion, not defeated, and above the champion
\* in the list or rated at or above the champion.
Eligible(allScenes) ==
  {i \in 0..(Len(allScenes) - 1) :
     /\ allScenes[i + 1].id # gauntletChampion.id
     /\ allScenes[i + 1].id \notin Range(gauntletDefeated)
     /\ \/ i < FindIndex(allScenes, gauntletChampion.id)
        \/ allScenes[i + 1].rating100 >= gauntletChampion.rating100}

\* C28: in Climbing (Gauntlet and Champion) the opponent is the scene with
\* the smallest rank index among the scenes that are not the champion, not
\* defeated, and above the champion in the sorted list or rated at or above it.
C28_OpponentIsTopRemaining ==
  ClimbingPairShown =>
    /\ FindIndex(Get(memoryCache.allScenes), currentPair.right.id)
         \in Eligible(Get(memoryCache.allScenes))
    /\ \A i \in Eligible(Get(memoryCache.allScenes)) :
         FindIndex(Get(memoryCache.allScenes), currentPair.right.id) <= i

\* The victory screen of a run is shown for the champion.
VictoryShown ==
  /\ hist.result = "victory"
  /\ view.area \in {"victory-gauntlet", "victory-champion"}
  /\ gauntletChampion # NoScene
  /\ IsSome(memoryCache.allScenes)
  /\ pendingWrites = EmptyBag

\* C29: whenever the victory is shown (Gauntlet or Champion) the champion has
\* reached rank 1: it is the first of the list of all scenes sorted by rating
\* and no other scene has a strictly higher rating.
C29_VictoryMeansRankOne ==
  VictoryShown =>
    /\ FindIndex(Get(memoryCache.allScenes), gauntletChampion.id) = 0
    /\ \A i \in 1..Len(Get(memoryCache.allScenes)) :
         Get(memoryCache.allScenes)[i].rating100 <= gauntletChampion.rating100
    /\ \A id \in DOMAIN server : server[id].rating100 <= server[gauntletChampion.id].rating100

\* The pair shown is the falling scene against an opponent.
FallingPairShown ==
  /\ PairAwaitsChoice
  /\ SubState(StateNow) = "Falling"
  /\ currentPair.left.id = gauntletFallingScene.id

\* The 0-based positions of the scenes strictly below the falling scene that
\* are not in defeated.
Untested(allScenes) ==
  {i \in 0..(Len(allScenes) - 1) :
     /\ i > FindIndex(allScenes, gauntletFallingScene.id)
     /\ allScenes[i + 1].id \notin Range(gauntletDefeated)}

\* The falling scene has just lost again: the next load is pending.
FallingLostAgain ==
  /\ SubState(StateNow) = "Falling" /\ hist.fall # << >> /\ disableChoice
  /\ \E t \in BagToSet(timers) : t.kind = "load"

BeatenOpponent ==
  IF currentPair.left.id = hist.placed.id THEN currentPair.right ELSE currentPair.left

BeatenOpponentRank ==
  IF currentPair.left.id = hist.placed.id THEN currentRanks.right ELSE currentRanks.left

PlacedAtBottom == hist.placed.how = "bottom"

\* A background refresh of all scenes completes in this step.
RefreshOfAllCompletes ==
  \E r \in BagToSet(refreshes) :
    /\ r.bucket = "all"
    /\ refreshes' = refreshes (-) SetToBag({r})

\* C32: when a background refresh of all scenes completes, every rating the
\* list in memory holds in agreement with the Gateway (a rating applied by
\* updateSceneInCache after its write succeeded) is the rating the list holds
\* afterwards: the refresh does not put back the older value it fetched.
C32_RefreshKeepsAppliedRating ==
  [][RefreshOfAllCompletes /\ IsSome(memoryCache.allScenes) =>
       \A id \in DOMAIN server :
         CachedRatings(memoryCache.allScenes, id) = {server[id].rating100} =>
           CachedRatings(memoryCache.allScenes', id) = {server[id].rating100}]_vars

\* C33 as stated: in Swiss mode the loser of every decision loses at least 1
\* rating point, for every loser rating in [1,100] (or unrated, counted as
\* 50) and every winner rating.
C33_SwissLoserAlwaysDrops ==
  (HasCompared /\ currentMode = "swiss") =>
    /\ cmpResult[1].newLoserRating <= CmpLoserRating - 1
    /\ cmpResult[1].loserChange <= 0 - 1

\* C33, amended: in Swiss mode the loss computed for the loser is at least
\* 1 point for every pair of ratings; a loser rated 2 or more goes down by at
\* least 1 point and its new rating is written; a loser at the floor 1 keeps
\* its rating (the clamp to [1,100] absorbs the loss) and gets no write.
C33_SwissLoserDropsAboveFloor ==
  (HasCompared /\ currentMode = "swiss") =>
    /\ cmpResult[1].loserLoss >= 1
    /\ CmpLoserRating >= 2 =>
         /\ cmpResult[1].newLoserRating <= CmpLoserRating - 1
         /\ cmpResult[1].loserChange <= 0 - 1
         /\ [id |-> cmpArgs.loserId, rating100 |-> cmpResult[1].newLoserRating]
              \in cmpResult[1].writes
    /\ CmpLoserRating = 1 =>
         /\ cmpResult[1].newLoserRating = 1
         /\ cmpResult[1].loserChange = 0
         /\ \A w \in cmpResult[1].writes : w.id # cmpArgs.loserId

\* An upset in Swiss mode: an established scene rated 100 lost to a scene
\* rated 1, K times the expected score rounds to 0 and the loser still goes
\* down by the floor of 1 point.
C33_Witness ==
  /\ HasCompared /\ currentMode = "swiss"
  /\ cmpArgs.winnerCurrentRating = 1 /\ cmpArgs.loserCurrentRating = 100
  /\ cmpArgs.loserPlayCount = 20
  /\ RoundKExpected(getKFactor(cmpArgs.loserPlayCount), 99) = 0
  /\ cmpResult[1].loserLoss = 1
  /\ cmpResult[1].newLoserRating = 99

\* The last fetch was one of Swiss mode that found the pool exhausted,
\* cleared the filtered cache, took a fresh list and was served a scene by its
\* second call of the pool.
SwissRetryServed ==
  /\ hist.fetch.mode = "swiss"
  /\ hist.fetch.empties > 0 /\ hist.fetch.invalidated
  /\ hist.fetch.retries > 0

\* C34: the scene that the second call of the pool serves after an exhaustion
\* and the fresh fetch is not one of the scenes judged in this session, and
\* the removed ids that call filtered the fresh list by include them all.
C34_RetrySkipsJudged ==
  SwissRetryServed =>
    /\ hist.lastPick \notin hist.rated
    /\ hist.rated \subseteq hist.draw.removed

\* C35: in every reachable state the list of all scenes held in memory is
\* sorted by rating, descending (an unrated scene counts as 0, as in the
\* comparison of repositionSceneInArray), also between a decision and the
\* completion of its rating write.
C35_AllScenesSorted ==
  IsSome(memoryCache.allScenes) => SortedDesc(Get(memoryCache.allScenes))

\* C36: a pair is decided at most once: a choice or a skip is accepted only
\* when a pair has been rendered since the last accepted choice.
C36_DecidedAtMostOnce == ~hist.turn.again

\* currentPair holds the scenes of the cards that loadNewPair or
\* restoreCurrentPair rendered last (it is emptied when the filter changes).
PairPresented ==
  /\ view.area = "pair"
  /\ currentPair.left # NoScene \/ currentPair.right # NoScene

\* C37: with at least two scenes in the collection, every pair presented for
\* decision, in every mode and sub-state, is of two scenes with different ids.
C37_PairDistinct ==
  (PairPresented /\ Len(server) >= 2)
    => /\ currentPair.left.id # NULL
       /\ currentPair.right.id # NULL
       /\ currentPair.left.id # currentPair.right.id

\* A Swiss pair is presented, drawn by fetchSwissPair from the neighbours of
\* its left scene.
C37_Witness ==
  /\ PairPresented /\ Len(server) >= 2
  /\ currentMode = "swiss"
  /\ hist.fetch.mode = "swiss" /\ hist.fetch.outcome = "pair"
  /\ currentPair.left.id # currentPair.right.id

\* The run has ended on the victory screen or on the placement screen.
RunOver == view.area \in {"victory-gauntlet", "placement"}

\* Decisions made in the run of SpecFinish.
DecisionsMade == MaxFinishDecisions - decisions

\* C38: in Gauntlet mode, when the user decides every presented pair, a run
\* that has a champion reaches Victory or Placement, after at most
\* 2 * (N - 1) decisions over a collection of N scenes.
C38_RunTerminates ==
  /\ [](DecisionsMade <= 2 * (NumClimbScenes - 1))
  /\ (gauntletChampion # NoScene) ~> RunOver

\* A champion climbed, lost and fell to a placement.
C38_Witness ==
  /\ view.area = "placement"
  /\ hist.result = "placement"
  /\ DecisionsMade >= 3

\* A choice is accepted in Gauntlet or Champion mode while the run has no
\* champion: the first decision of a run.
FirstDecision ==
  /\ currentMode \in {"gauntlet", "champion"}
  /\ gauntletChampion = NoScene
  /\ ~gauntletFalling
  /\ decisions' = decisions - 1

\* The rating of a scene is what it was before the step: in the list of all
\* scenes and in the writes on their way to the Gateway.
RatingUntouched(id) ==
  /\ CachedRatings(memoryCache.allScenes, id)' = CachedRatings(memoryCache.allScenes, id)
  /\ pendingWrites' = pendingWrites

\* The scene loses exactly one point: by one write to the Gateway.
LosesOnePoint(scene) ==
  /\ CachedRatings(memoryCache.allScenes, scene.id)' = CachedRatings(memoryCache.allScenes, scene.id)
  /\ pendingWrites' = pendingWrites (+) SetToBag({[id |-> scene.id, rating100 |-> scene.rating100 - 1]})

\* The first decision, with the winner and the loser of the pair named.
FirstDecisionOf(winner, loser, loserRank) ==
  /\ gauntletChampion'.id = winner.id
  /\ gauntletWins' = 1
  /\ gauntletDefeated' = << loser.id >>
  /\ gauntletChampion'.rating100 = winner.rating100
  /\ CachedRatings(memoryCache.allScenes, winner.id)' = CachedRatings(memoryCache.allScenes, winner.id)
  /\ IF loserRank = 1 THEN LosesOnePoint(loser) ELSE RatingUntouched(loser.id)

\* C39: in Gauntlet and Champion mode the first decision of a run makes the
\* winner champion with streak 1 and defeated = {loser} and changes neither
\* scene's rating, unless the loser is ranked #1: then the loser loses exactly
\* one point.
C39_FirstDecision ==
  [][FirstDecision =>
       \/ FirstDecisionOf(currentPair.left, currentPair.right, currentRanks.right)
       \/ FirstDecisionOf(currentPair.right, currentPair.left, currentRanks.left)]_vars

\* C40: the saved session never offers a decided pair: the pair that
\* restoreCurrentPair presents after the page was loaded again is not one for
\* which a choice was accepted (and applied to ratings, streak or defeated
\* list) before.
C40_RestoredPairUndecided == ~hist.turn.restored


=============================================================================
